---- MODULE Spec2Model ----
(***************************************************************************)
(* Tiling, masking and normalisation bookkeeping of microDL:               *)
(*   micro_dl/preprocessing/tile_nonuniform_images.py  ImageTilerNonUniform *)
(*   micro_dl/preprocessing/generate_masks.py          MaskProcessor        *)
(*   micro_dl/utils/meta_utils.py                      compute_zscore_params *)
(* Python dicts are modelled as sequences of <<key, value>> pairs (a dict  *)
(* iterates in insertion order), data frames as sequences of records.      *)
(***************************************************************************)
EXTENDS Integers, Sequences, FiniteSets, TLC

\* ---------------------------------------------------------------- bounds
\* slice indices of the modelled datasets are 0..MaxSlice
MaxSlice == 2
\* calls of compute_zscore_params on one table
MaxCalls == 2
\* mask runs on one input directory
MaxRuns == 2
\* estimate calls on one MetricsEstimator
MaxEstimates == 2

TimeIds == {0, 1}
PosIds == {0, 1}
ChannelIds == {0, 1}
SliceIds == 0..MaxSlice
\* the (time, pos) leaves at which the modelled datasets may hold frames
Leaves == {<<0, 0>>, <<0, 1>>, <<1, 0>>}
AllSlices == SliceIds
Trimmed == SliceIds \ {MaxSlice}
\* the shapes one channel of a modelled dataset may have, as the slice set
\* of each leaf: complete; without time 1; short at one position; without
\* time 0; absent; without position 1 and short at time 1
ChannelShapes ==
    {[l \in Leaves |-> AllSlices],
     (<<0, 0>> :> AllSlices) @@ (<<0, 1>> :> Trimmed) @@ (<<1, 0>> :> {}),
     (<<0, 0>> :> Trimmed) @@ (<<0, 1>> :> AllSlices) @@ (<<1, 0>> :> AllSlices),
     (<<0, 0>> :> {}) @@ (<<0, 1>> :> {}) @@ (<<1, 0>> :> AllSlices),
     [l \in Leaves |-> {}],
     (<<0, 0>> :> AllSlices) @@ (<<0, 1>> :> {}) @@ (<<1, 0>> :> Trimmed)}
DepthChoices == {1, 3}
\* requested channel lists
ChannelIdChoices == {<<0, 1>>, <<1, 0>>, <<1>>}

\* ------------------------------------------------------- generic helpers
Min(S) == CHOOSE x \in S : \A y \in S : x <= y
Max(S) == CHOOSE x \in S : \A y \in S : x >= y

RECURSIVE SortedSeq(_)
\* the elements of a finite set of integers, ascending
SortedSeq(S) == IF S = {} THEN <<>> ELSE <<Min(S)>> \o SortedSeq(S \ {Min(S)})

Range(seq) == {seq[i] : i \in DOMAIN seq}

RECURSIVE Flatten(_)
\* concatenation of a sequence of sequences (pd.concat of a list of frames)
Flatten(ss) == IF ss = <<>> THEN <<>> ELSE Head(ss) \o Flatten(Tail(ss))

\* dict helpers: a dict is a sequence of <<key, value>> pairs with distinct keys
Keys(d) == {d[i][1] : i \in DOMAIN d}
Get(d, k) == d[CHOOSE i \in DOMAIN d : d[i][1] = k][2]
Del(d, k) == SelectSeq(d, LAMBDA kv : kv[1] # k)
Put(d, k, v) ==
    IF k \in Keys(d)
    THEN [i \in DOMAIN d |-> IF d[i][1] = k THEN <<k, v>> ELSE d[i]]
    ELSE Append(d, <<k, v>>)

\* -------------------------------------------------------------- state
VARIABLES
    frames_metadata,   \* frames_meta.csv of input_dir: set of FrameRecords
    requested_ids,     \* the channel_ids argument of the constructor call
    tile_meta,         \* frames_meta.csv of tile_dir: [exists, rows]
    pc,                \* position of the orchestrating caller
    err,               \* the error the run ended with, "" if none
    channel_ids,       \* self.channel_ids
    channel_depth,     \* self.channel_depth: dict channel -> depth
    nested_id_dict,    \* self.nested_id_dict (IndexTree)
    call,              \* the entry point running: "", "tile_stack", "tile_mask_stack"
    tiled_ch_id,       \* the reference channel of the run
    ch0_ids,           \* the dict handed to tile_first_channel as channel0_ids
    ch0_depth,         \* the channel0_depth handed to tile_first_channel
    remaining_ids,     \* the IndexTree handed to tile_remaining_channels
    mask_dir,          \* the mask directory handed to tile_mask_stack
    meta_df,           \* the reference table tile_first_channel returned
    fn_args,           \* the jobs handed to the worker pool
    job_state,         \* per job: "queued", "running", "returned"
    raised             \* some job of the phase returned by raising

\* compute_zscore_params (meta_utils.py)
VARIABLES
    frames_meta,       \* the frames_meta argument of the last call, as the call left it
    ints_meta,         \* the ints_meta argument: the intensity samples
    normalize_im,      \* the normalize_im argument of the last call
    zs_min_fraction,   \* the min_fraction argument of the last call
    zscore_ret,        \* the table the last call returned
    frames_meta_csv,   \* frames_meta.csv of input_dir: [exists, table]
    zs_pc,             \* "idle", "call", "returned", "failed"
    zs_calls           \* the number of calls made

\* MaskProcessor (generate_masks.py)
VARIABLES
    input_frames_csv,  \* frames_meta.csv of input_dir: [cols, rows]
    images,            \* the pixel content of the frames of input_dir
    intensity_meta_csv,\* intensity_meta.csv of input_dir: [exists, rows]
    mask_args,         \* the arguments of the constructor call
    mask_proc,         \* the fields of the MaskProcessor object
    mask_fn_args,      \* the jobs the last generate_masks built for the pool
    mask_meta_csv,     \* frames_meta.csv of the mask directory: [exists, rows]
    mk_pc,             \* "idle", "new", "constructed", "generated", "failed"
    mk_err,            \* the error the last mask run ended with, "" if none
    run_log            \* per finished run: thresholds, frames table before, mask and frames table after

\* MetricsEstimator (evaluation_metrics.py)
VARIABLES
    metrics_xyz,       \* self.metrics_xyz: [set, rows], not set while None
    metrics_xy,        \* self.metrics_xy
    metrics_xz,        \* self.metrics_xz
    metrics_yz,        \* self.metrics_yz
    masked_metrics,    \* self.masked_metrics
    me_args,           \* the arguments of the last estimate call
    me_pc,             \* "idle", "ready", "returned", "failed"
    me_err,            \* the error the last estimate call raised, "" if none
    me_calls,          \* the number of estimate calls made
    rows_computed      \* the number of calls of compute_metrics_row so far

tvars == <<frames_metadata, requested_ids, tile_meta, pc, err, channel_ids, channel_depth,
           nested_id_dict, call, tiled_ch_id, ch0_ids, ch0_depth, remaining_ids, mask_dir,
           meta_df, fn_args, job_state, raised>>
zvars == <<frames_meta, ints_meta, normalize_im, zs_min_fraction, zscore_ret,
           frames_meta_csv, zs_pc, zs_calls>>
mvars == <<input_frames_csv, images, intensity_meta_csv, mask_args, mask_proc, mask_fn_args,
           mask_meta_csv, mk_pc, mk_err, run_log>>
evars == <<metrics_xyz, metrics_xy, metrics_xz, metrics_yz, masked_metrics,
           me_args, me_pc, me_err, me_calls, rows_computed>>
vars == <<tvars, zvars, mvars, evars>>


\* ------------------------------------------------- tiling configuration
\* TilingConfig of the modelled runs: image shape, tile size and stride
im_shape == <<3, 2>>
tile_size == <<2, 2>>
step_size == <<1, 1>>
\* foreground fractions are percentages; a mask tile is kept from min_fraction on
min_fraction == 30
FgLow == 10
FgHigh == 50
num_workers == 2

\* ------------------------------------------------------ metadata tables
FrameRecord(t, c, p, s) ==
    [time_idx |-> t, channel_idx |-> c, pos_idx |-> p, slice_idx |-> s]

\* the frames (time, channel, pos) holds, as the set of their slice indices
SlicesAt(fr, t, c, p) ==
    {f.slice_idx : f \in {g \in fr : g.time_idx = t /\ g.channel_idx = c
                                      /\ g.pos_idx = p}}

PosDict(fr, t, c) ==
    LET ps == SortedSeq({f.pos_idx : f \in {g \in fr : g.time_idx = t
                                                     /\ g.channel_idx = c}})
    IN [i \in DOMAIN ps |-> <<ps[i], SortedSeq(SlicesAt(fr, t, c, ps[i]))>>]

ChDict(fr, t, chs) ==
    LET all == [i \in DOMAIN chs |-> <<chs[i], PosDict(fr, t, chs[i])>>]
    IN SelectSeq(all, LAMBDA kv : kv[2] # <<>>)

\* validate_metadata_indices(..., uniform_structure=False): the IndexTree
\* time -> channel -> pos -> slice list of the requested channels
validate_metadata_indices(fr, chs) ==
    LET ts == SortedSeq({f.time_idx : f \in fr})
        all == [i \in DOMAIN ts |-> <<ts[i], ChDict(fr, ts[i], chs)>>]
    IN SelectSeq(all, LAMBDA kv : kv[2] # <<>>)

\* every requested channel index occurs in the table
IndicesFound(fr, chs) ==
    \A i \in DOMAIN chs : \E f \in fr : f.channel_idx = chs[i]

\* adjust_slice_margins: the slices whose full depth window exists
adjust_slice_margins(sl_idx_list, depth) ==
    SelectSeq(sl_idx_list,
              LAMBDA s : \A k \in (s - depth \div 2)..(s + depth \div 2) :
                            k \in Range(sl_idx_list))

\* --------------------------------------------------------------- tiles
\* tile_image: the origins i*step at which a whole tile fits, row-major
GridOrigins ==
    LET rows == {r \in 0..im_shape[1] :
                    r % step_size[1] = 0 /\ r + tile_size[1] <= im_shape[1]}
        cols == {c \in 0..im_shape[2] :
                    c % step_size[2] = 0 /\ c + tile_size[2] <= im_shape[2]}
        rs == SortedSeq(rows)
        cs == SortedSeq(cols)
    IN Flatten([i \in DOMAIN rs |-> [j \in DOMAIN cs |-> <<rs[i], cs[j]>>]])

\* the name of a tile file: im_c<c>_z<z>_t<t>_p<p>_r<r>_c<c>, zero-padded
\* fields, so that names order as these tuples do
FileName(t, c, p, s, r, col) == <<c, s, t, p, r, col>>

TileRecord(t, c, p, s, r, col) ==
    [time_idx |-> t, channel_idx |-> c, slice_idx |-> s, pos_idx |-> p,
     row_start |-> r, col_start |-> col, file_name |-> FileName(t, c, p, s, r, col)]

RECURSIVE TupleLess(_, _)
\* lexicographic order of two tuples of equal length
TupleLess(a, b) ==
    IF a = <<>> THEN FALSE
    ELSE IF Head(a) # Head(b) THEN Head(a) < Head(b)
    ELSE TupleLess(Tail(a), Tail(b))

RECURSIVE InsertRow(_, _)
InsertRow(sorted, row) ==
    IF sorted = <<>> THEN <<row>>
    ELSE IF TupleLess(row.file_name, Head(sorted).file_name)
         THEN <<row>> \o sorted
         ELSE <<Head(sorted)>> \o InsertRow(Tail(sorted), row)

\* the frame is left in the order of the concatenation
sort_values_Unsorted(df) == df

RECURSIVE sort_values(_)
\* DataFrame.sort_values(by=['file_name'])
sort_values(df) ==
    IF df = <<>> THEN <<>>
    ELSE InsertRow(sort_values(SubSeq(df, 1, Len(df) - 1)), df[Len(df)])

\* the foreground fraction of the mask tile at an origin of a mask image
TileFg(md, t, p, s, o) ==
    IF <<t, p, s, o>> \in md.low THEN FgLow ELSE FgHigh


\* ---------------------------------------------------------------- jobs
Job(task, t, c, p, s, tile_indices, is_mask) ==
    [task |-> task, time_idx |-> t, channel_idx |-> c, pos_idx |-> p,
     slice_idx |-> s, tile_indices |-> tile_indices, is_mask |-> is_mask]

\* get_crop_tile_args looks the frame's file up: in the mask table of
\* mask_dir for a mask, in frames_metadata otherwise
FrameExists(fr, md, job) ==
    IF job.is_mask
    THEN \E m \in md.meta : /\ m.time_idx = job.time_idx
                            /\ m.pos_idx = job.pos_idx
                            /\ m.slice_idx = job.slice_idx
    ELSE FrameRecord(job.time_idx, job.channel_idx, job.pos_idx, job.slice_idx)
            \in fr

\* tile_first_channel, lines 93-113: one 'tile' job per (time, pos, slice)
\* of channel0_ids that survives the margin adjustment with channel0_depth
FirstChannelArgs(channel0_ids, channel0_depth, is_mask) ==
    Flatten([i \in DOMAIN channel0_ids |->
      LET tp_idx == channel0_ids[i][1]
          tp_dict == channel0_ids[i][2]
      IN Flatten([j \in DOMAIN tp_dict |->
           LET ch_idx == tp_dict[j][1]
               ch_dict == tp_dict[j][2]
           IN Flatten([k \in DOMAIN ch_dict |->
                LET pos_idx == ch_dict[k][1]
                    cur_sl_idx_list ==
                        adjust_slice_margins(ch_dict[k][2], channel0_depth)
                IN [m \in DOMAIN cur_sl_idx_list |->
                      Job("tile", tp_idx, ch_idx, pos_idx, cur_sl_idx_list[m],
                          <<>>, is_mask)]])])])

\* _get_tile_indices: [row_start, row_end, col_start, col_end] of every
\* TileRecord of channel_idx at (time, pos, slice) in the tiled table
get_tile_indices(tiled_meta, time_idx, channel_idx, pos_idx, slice_idx) ==
    LET channel_meta ==
            SelectSeq(tiled_meta,
                      LAMBDA r : /\ r.time_idx = time_idx
                                 /\ r.channel_idx = channel_idx
                                 /\ r.pos_idx = pos_idx
                                 /\ r.slice_idx = slice_idx)
    IN [i \in DOMAIN channel_meta |->
          <<channel_meta[i].row_start,
            channel_meta[i].row_start + tile_size[1],
            channel_meta[i].col_start,
            channel_meta[i].col_start + tile_size[2]>>]

\* np.any over the list of tile indices
NpAny(tile_indices) ==
    \E i \in DOMAIN tile_indices :
        \E j \in DOMAIN tile_indices[i] : tile_indices[i][j] # 0

\* get_tile_indices asked for the reference tiles of the whole (time, pos)
\* stack instead of the one slice
CropArgsAt_AnySlice(tp_idx, ch_idx, pos_idx, sl_idx, tiled, cur_meta_df) ==
    LET cur_tile_indices ==
            Flatten([i \in DOMAIN SortedSeq(SliceIds) |->
                       get_tile_indices(cur_meta_df, tp_idx, tiled, pos_idx,
                                        SortedSeq(SliceIds)[i])])
    IN IF NpAny(cur_tile_indices)
       THEN <<Job("crop", tp_idx, ch_idx, pos_idx, sl_idx, cur_tile_indices,
                  FALSE)>>
       ELSE <<>>

\* the leaf is tiled with its own grid wherever the reference has any tile
CropArgsAt_OwnGrid(tp_idx, ch_idx, pos_idx, sl_idx, tiled, cur_meta_df) ==
    LET cur_tile_indices ==
            get_tile_indices(cur_meta_df, tp_idx, tiled, pos_idx, sl_idx)
    IN IF NpAny(cur_tile_indices)
       THEN <<Job("crop", tp_idx, ch_idx, pos_idx, sl_idx,
                  [i \in DOMAIN GridOrigins |->
                     <<GridOrigins[i][1], GridOrigins[i][1] + tile_size[1],
                       GridOrigins[i][2], GridOrigins[i][2] + tile_size[2]>>],
                  FALSE)>>
       ELSE <<>>

\* the crop job of one leaf slice, none if the reference has no tiles there
CropArgsAt(tp_idx, ch_idx, pos_idx, sl_idx, tiled, cur_meta_df) ==
    LET cur_tile_indices ==
            get_tile_indices(cur_meta_df, tp_idx, tiled, pos_idx, sl_idx)
    IN IF NpAny(cur_tile_indices)
       THEN <<Job("crop", tp_idx, ch_idx, pos_idx, sl_idx, cur_tile_indices,
                  FALSE)>>
       ELSE <<>>

\* the slice loop runs over every slice index instead of the leaf's own list
RemainingArgs_EverySlice(nested, depths, tiled, cur_meta_df) ==
    Flatten([i \in DOMAIN nested |->
      LET tp_idx == nested[i][1]
          tp_dict == nested[i][2]
      IN Flatten([j \in DOMAIN tp_dict |->
           LET ch_idx == tp_dict[j][1]
               ch_dict == tp_dict[j][2]
           IN Flatten([k \in DOMAIN ch_dict |->
                LET pos_idx == ch_dict[k][1]
                    cur_sl_idx_list ==
                        adjust_slice_margins(SortedSeq(SliceIds),
                                             Get(depths, ch_idx))
                IN Flatten([m \in DOMAIN cur_sl_idx_list |->
                      CropArgsAt(tp_idx, ch_idx, pos_idx, cur_sl_idx_list[m],
                                 tiled, cur_meta_df)])])])])

\* every channel's margins are adjusted with the depth of the first channel
RemainingArgs_FirstDepth(nested, depths, tiled, cur_meta_df) ==
    Flatten([i \in DOMAIN nested |->
      LET tp_idx == nested[i][1]
          tp_dict == nested[i][2]
      IN Flatten([j \in DOMAIN tp_dict |->
           LET ch_idx == tp_dict[j][1]
               ch_dict == tp_dict[j][2]
           IN Flatten([k \in DOMAIN ch_dict |->
                LET pos_idx == ch_dict[k][1]
                    cur_sl_idx_list ==
                        adjust_slice_margins(ch_dict[k][2], depths[1][2])
                IN Flatten([m \in DOMAIN cur_sl_idx_list |->
                      CropArgsAt(tp_idx, ch_idx, pos_idx, cur_sl_idx_list[m],
                                 tiled, cur_meta_df)])])])])

\* tile_remaining_channels, lines 138-164: one 'crop' job per leaf slice of
\* nested that survives the channel's own margin adjustment and at which the
\* tiled channel has recorded tiles
RemainingArgs(nested, depths, tiled, cur_meta_df) ==
    Flatten([i \in DOMAIN nested |->
      LET tp_idx == nested[i][1]
          tp_dict == nested[i][2]
      IN Flatten([j \in DOMAIN tp_dict |->
           LET ch_idx == tp_dict[j][1]
               ch_dict == tp_dict[j][2]
           IN Flatten([k \in DOMAIN ch_dict |->
                LET pos_idx == ch_dict[k][1]
                    cur_sl_idx_list ==
                        adjust_slice_margins(ch_dict[k][2], Get(depths, ch_idx))
                IN Flatten([m \in DOMAIN cur_sl_idx_list |->
                      CropArgsAt(tp_idx, ch_idx, pos_idx, cur_sl_idx_list[m],
                                 tiled, cur_meta_df)])])])])

\* the channels tile_remaining_channels meets while it loops over nested
ChannelsOf(nested) ==
    UNION {Keys(nested[i][2]) : i \in DOMAIN nested}

\* the origins a 'tile' job keeps: the whole grid, or for a mask the origins
\* whose foreground fraction reaches min_fraction
KeptOrigins(md, job) ==
    IF job.is_mask
    THEN SelectSeq(GridOrigins,
                   LAMBDA o : TileFg(md, job.time_idx, job.pos_idx,
                                     job.slice_idx, o) >= min_fraction)
    ELSE GridOrigins

\* the metadata a worker job returns (mp_tile_save / mp_crop_save)
JobResult(md, job) ==
    IF job.task = "tile"
    THEN LET os == KeptOrigins(md, job)
         IN [i \in DOMAIN os |->
               TileRecord(job.time_idx, job.channel_idx, job.pos_idx,
                          job.slice_idx, os[i][1], os[i][2])]
    ELSE [i \in DOMAIN job.tile_indices |->
            TileRecord(job.time_idx, job.channel_idx, job.pos_idx,
                       job.slice_idx, job.tile_indices[i][1],
                       job.tile_indices[i][3])]

\* the list of frames the pool returns, in submission order
PoolResults(md, args) == [i \in DOMAIN args |-> JobResult(md, args[i])]

\* the orders in which the pool may hand the frames of n jobs back: as
\* submitted, or reversed
CompletionOrders(n) == {[i \in 1..n |-> i], [i \in 1..n |-> n + 1 - i]}

InOrder(frames, order) == [i \in DOMAIN frames |-> frames[order[i]]]

RECURSIVE Ch0Scan(_, _, _, _, _, _)
\* tile_stack, lines 204-210: ch0_ids[tp_idx] = ch0_dict for every time
\* point; ch0_dict is assigned only where the time point holds ch_to_tile
Ch0Scan(tree, ch_to_tile, i, bound, ch0_dict, out) ==
    IF i > Len(tree) THEN [ok |-> TRUE, ids |-> out]
    ELSE LET tp_dict == tree[i][2]
             has == ch_to_tile \in Keys(tp_dict)
             cur == IF has THEN <<<<ch_to_tile, Get(tp_dict, ch_to_tile)>>>>
                    ELSE ch0_dict
         IN IF ~has /\ ~bound
            THEN [ok |-> FALSE, ids |-> <<>>]
            ELSE Ch0Scan(tree, ch_to_tile, i + 1, TRUE, cur,
                         Append(out, <<tree[i][1], cur>>))

\* tile_stack, lines 202 and 209: the deep copy without the first channel
RemoveChannel(tree, ch_to_tile) ==
    [i \in DOMAIN tree |-> <<tree[i][1], Del(tree[i][2], ch_to_tile)>>]

\* tile_mask_stack, lines 259-264: the time points of the mask channel
MaskChIds(mask_nested, mask_channel) ==
    LET all == [i \in DOMAIN mask_nested |->
                  <<mask_nested[i][1],
                    SelectSeq(mask_nested[i][2],
                              LAMBDA kv : kv[1] = mask_channel)>>]
    IN SelectSeq(all, LAMBDA kv : kv[2] # <<>>)


\* --------------------------------------------------------- input spaces
\* the dataset in which channel c has the shape sh[c]
DatasetOf(sh) ==
    {FrameRecord(z[1][1], z[2], z[1][2], z[3]) :
        z \in {y \in Leaves \X ChannelIds \X SliceIds : y[3] \in sh[y[2]][y[1]]}}

\* the channel number of the masks: max(channel_idx) + 1
MaskChannel == Max(ChannelIds) + 1

MaskRecordAt(t, p, s) ==
    [time_idx |-> t, channel_idx |-> MaskChannel, pos_idx |-> p, slice_idx |-> s]

\* the mask directories handed to tile_mask_stack: masks at the leaves lv
\* for the slices ss, the mask tiles of low at a low foreground fraction
MaskDirOf(lv, ss, low) ==
    [meta |-> {MaskRecordAt(l[1], l[2], s) : l \in lv, s \in ss}, low |-> low]

\* all mask tiles of one mask image
TilesOf(t, p, s) == {<<t, p, s, o>> : o \in Range(GridOrigins)}

MaskDirs ==
    {MaskDirOf(Leaves, AllSlices, {}),
     MaskDirOf(Leaves, AllSlices, {<<0, 0, 1, <<0, 0>>>>}),
     MaskDirOf(Leaves, AllSlices, TilesOf(0, 0, 1) \cup TilesOf(0, 1, 0)),
     MaskDirOf({<<0, 0>>, <<1, 0>>}, Trimmed, {<<0, 0, 0, <<0, 0>>>>})}

\* a mask directory whose masks carry the number of a channel of the
\* dataset (masks numbered from a frames table that held channel 0 alone)
CollidingMaskDir ==
    [meta |-> {[MaskRecordAt(0, 0, s) EXCEPT !.channel_idx = Max(ChannelIds)] :
                  s \in Trimmed},
     low |-> {}]

\* the channel number of the masks of a mask directory
MaskChannelIn(md) == CHOOSE c \in 0..MaskChannel : \E m \in md.meta : m.channel_idx = c

NoTable == [exists |-> FALSE, rows |-> <<>>]
\* a table left in tile_dir by an earlier tiling
OldTable == [exists |-> TRUE, rows |-> <<TileRecord(0, 0, 0, 0, 0, 0)>>]

\* ------------------------------------------------- data frames with NaN
\* a cell of an optional column: NaN when missing, Val(x) otherwise
NaN == <<>>
Val(x) == <<x>>

\* df[col] = v: the column is created or overwritten in every row
SetColumn(df, col, v) ==
    [cols |-> df.cols \cup {col},
     rows |-> [i \in DOMAIN df.rows |-> [df.rows[i] EXCEPT ![col] = v]]]

\* df[columns other than cs]
DropColumns(df, cs) ==
    [cols |-> df.cols \ cs,
     rows |-> [i \in DOMAIN df.rows |->
                 [c \in DOMAIN df.rows[i] |->
                     IF c \in cs THEN NaN ELSE df.rows[i][c]]]]

\* the values of a row in the columns cols
KeyOf(r, cols) == [i \in DOMAIN cols |-> r[cols[i]]]

RECURSIVE InsertInt(_, _)
InsertInt(sorted, x) ==
    IF sorted = <<>> THEN <<x>>
    ELSE IF x <= Head(sorted) THEN <<x>> \o sorted
         ELSE <<Head(sorted)>> \o InsertInt(Tail(sorted), x)

RECURSIVE SortInts(_)
\* a sequence of integers in ascending order, duplicates kept
SortInts(xs) ==
    IF xs = <<>> THEN <<>> ELSE InsertInt(SortInts(Tail(xs)), Head(xs))

\* ------------------------------------------------- compute_zscore_params
\* statistics are held in quarters of an intensity unit, so that the linear
\* interpolation of a quantile stays in the integers
Quarters(x) == 4 * x

\* Series.quantile(k/4) of the ascending values xs, linear interpolation, in
\* quarters; quantile(0.5) is the median
Quantile4(xs, k) ==
    LET h == (Len(xs) - 1) * k
        i == (h \div 4) + 1
        r == h % 4
    IN IF r = 0 THEN Quarters(xs[i])
       ELSE Quarters(xs[i]) + r * (xs[i + 1] - xs[i])

\* the grouping columns of a scope, all three without the position
agg_cols_NoPosition(n) ==
    IF n = "dataset" THEN <<"time_idx", "channel_idx", "dir_name">>
    ELSE IF n = "volume" THEN <<"time_idx", "channel_idx", "dir_name">>
    ELSE <<"time_idx", "channel_idx", "dir_name", "slice_idx">>

\* the grouping columns of a scope
agg_cols(n) ==
    IF n = "dataset" THEN <<"time_idx", "channel_idx", "dir_name">>
    ELSE IF n = "volume" THEN <<"time_idx", "channel_idx", "dir_name", "pos_idx">>
    ELSE <<"time_idx", "channel_idx", "dir_name", "pos_idx", "slice_idx">>

\* ints_meta[ints_meta['fg_frac'] >= min_fraction]
FilterFg(ints, mf) == SelectSeq(ints, LAMBDA s : s.fg_frac >= mf)

\* the ascending intensities of the samples of one group
GroupInts(ints, cols, key) ==
    LET g == SelectSeq(ints, LAMBDA s : KeyOf(s, cols) = key)
    IN SortInts([i \in DOMAIN g |-> g[i].intensity])

\* groupby(agg_cols) median and quantile(0.75) - quantile(0.25): one row per
\* group that has a sample
ints_agg(ints, cols) ==
    [key \in {KeyOf(s, cols) : s \in Range(ints)} |->
        LET xs == GroupInts(ints, cols, key)
        IN [zscore_median |-> Quantile4(xs, 2),
            zscore_iqr |-> Quantile4(xs, 3) - Quantile4(xs, 1)]]

\* every column is handed to the merge
cols_to_merge_All(df) == df

\* frames_meta[cols_to_merge]: the table without its zscore columns
cols_to_merge(df) == DropColumns(df, {"zscore_median", "zscore_iqr"})

\* an inner join: a row without a group is dropped
merge_left_Inner(df, agg, cols) ==
    [cols |-> df.cols \cup {"zscore_median", "zscore_iqr"},
     rows |-> LET kept == SelectSeq(df.rows, LAMBDA r : KeyOf(r, cols) \in DOMAIN agg)
              IN [i \in DOMAIN kept |->
                    [kept[i] EXCEPT
                       !.zscore_median = Val(agg[KeyOf(kept[i], cols)].zscore_median),
                       !.zscore_iqr = Val(agg[KeyOf(kept[i], cols)].zscore_iqr)]]]

\* pd.merge(df, ints_agg, how='left', on=agg_cols): a row without a group
\* is kept as it is handed in
merge_left(df, agg, cols) ==
    [cols |-> df.cols \cup {"zscore_median", "zscore_iqr"},
     rows |-> [i \in DOMAIN df.rows |->
                 LET r == df.rows[i]
                     key == KeyOf(r, cols)
                 IN IF key \in DOMAIN agg
                    THEN [r EXCEPT !.zscore_median = Val(agg[key].zscore_median),
                                   !.zscore_iqr = Val(agg[key].zscore_iqr)]
                    ELSE r]]

\* the frames the statistics are computed for: directory, time, channel,
\* position, slice
ZFrameKeys ==
    <<<<"d1", 0, 0, 0, 0>>, <<"d1", 0, 0, 0, 1>>, <<"d1", 0, 0, 1, 0>>,
      <<"d1", 1, 0, 0, 0>>, <<"d1", 0, 1, 0, 0>>, <<"d2", 0, 0, 0, 0>>>>

ZRow(k) ==
    [dir_name |-> k[1], time_idx |-> k[2], channel_idx |-> k[3], pos_idx |-> k[4],
     slice_idx |-> k[5], zscore_median |-> NaN, zscore_iqr |-> NaN]

ZSample(k, x) ==
    [dir_name |-> k[1], time_idx |-> k[2], channel_idx |-> k[3], pos_idx |-> k[4],
     slice_idx |-> k[5], intensity |-> x[1], fg_frac |-> x[2]]

\* the samples of one image as <<intensity, fg_frac>>; fg_frac is the
\* foreground fraction of the image the sample is from
SampleChoices ==
    {<<<<2, FgHigh>>, <<4, FgHigh>>>>, <<<<8, FgHigh>>>>, <<<<6, FgLow>>>>}
BrightSampleChoices ==
    {<<<<2, FgHigh>>, <<4, FgHigh>>>>, <<<<8, FgHigh>>>>}

NormalizeChoices == {"None", "slice", "volume", "dataset", "fov"}
MinFractionChoices == {0, min_fraction}

ZscoreIdle ==
    /\ frames_meta = [cols |-> {}, rows |-> <<>>]
    /\ ints_meta = <<>>
    /\ normalize_im = ""
    /\ zs_min_fraction = 0
    /\ zscore_ret = [cols |-> {}, rows |-> <<>>]
    /\ frames_meta_csv = [exists |-> FALSE, table |-> [cols |-> {}, rows |-> <<>>]]
    /\ zs_pc = "idle"
    /\ zs_calls = 0

ZscoreInit ==
    /\ frames_meta =
          [cols |-> {"dir_name", "time_idx", "channel_idx", "pos_idx", "slice_idx"},
           rows |-> [i \in DOMAIN ZFrameKeys |-> ZRow(ZFrameKeys[i])]]
    /\ \E ch \in [DOMAIN ZFrameKeys -> SampleChoices] :
          /\ \A i \in DOMAIN ZFrameKeys :
                (ZFrameKeys[i][1] # "d1" \/ ZFrameKeys[i][3] # 0)
                   => ch[i] \in BrightSampleChoices
          /\ ints_meta =
                Flatten([i \in DOMAIN ZFrameKeys |->
                           [j \in DOMAIN ch[i] |-> ZSample(ZFrameKeys[i], ch[i][j])]])
    /\ normalize_im = ""
    /\ zs_min_fraction = 0
    /\ zscore_ret = [cols |-> {}, rows |-> <<>>]
    /\ frames_meta_csv = [exists |-> TRUE, table |-> frames_meta]
    /\ zs_pc = "call"
    /\ zs_calls = 0

\* compute_zscore_params(frames_meta, ints_meta, input_dir, n, mf); the
\* caller hands the table the previous call returned to the next call
compute_zscore_params(n, mf) ==
    /\ zs_pc \in {"call", "returned"}
    /\ zs_calls < MaxCalls
    /\ zs_calls' = zs_calls + 1
    /\ normalize_im' = n
    /\ zs_min_fraction' = mf
    /\ UNCHANGED <<tvars, mvars, evars, ints_meta>>
    /\ LET arg == IF zs_pc = "call" THEN frames_meta ELSE zscore_ret
       IN IF n \notin {"None", "slice", "volume", "dataset"}
          THEN /\ zs_pc' = "failed"
               /\ frames_meta' = arg
               /\ UNCHANGED <<zscore_ret, frames_meta_csv>>
          ELSE IF n = "None"
          THEN LET df == SetColumn(SetColumn(arg, "zscore_median", Val(Quarters(0))),
                                   "zscore_median", Val(Quarters(1)))
               IN /\ frames_meta' = df
                  /\ zscore_ret' = df
                  /\ zs_pc' = "returned"
                  /\ UNCHANGED frames_meta_csv
          ELSE LET ints == FilterFg(ints_meta, mf)
                   agg == ints_agg(ints, agg_cols(n))
                   df == merge_left(cols_to_merge(arg), agg, agg_cols(n))
               IN /\ frames_meta' = arg
                  /\ zscore_ret' = df
                  /\ frames_meta_csv' = [exists |-> TRUE, table |-> df]
                  /\ zs_pc' = "returned"

\* ---------------------------------------------------------- MaskProcessor
\* input_dir of the mask runs
InputDir == "d1"

\* the frames of input_dir: channel 0 at every (time, slice) of position 0,
\* channel 1 at the keys of one of these shapes
MaskKeys == {<<0, 0, 0>>, <<0, 0, 1>>, <<1, 0, 0>>, <<1, 0, 1>>}
Ch1Shapes == {MaskKeys, MaskKeys \ {<<1, 0, 1>>}, {}}

MRow(t, c, p, s) ==
    [dir_name |-> InputDir, time_idx |-> t, channel_idx |-> c, pos_idx |-> p,
     slice_idx |-> s, fg_frac |-> NaN]

RECURSIVE SortKeys(_)
\* a set of index tuples as a sequence in lexicographic order
SortKeys(S) ==
    IF S = {} THEN <<>>
    ELSE LET m == CHOOSE x \in S : \A y \in S : x = y \/ TupleLess(x, y)
         IN <<m>> \o SortKeys(S \ {m})

\* frames_meta.csv as frames_meta_generator writes it, in file name order
MaskFramesOf(shape1) ==
    LET ks == SortKeys({<<0, k[3], k[1], k[2]>> : k \in MaskKeys}
                       \cup {<<1, k[3], k[1], k[2]>> : k \in shape1})
    IN [i \in DOMAIN ks |-> MRow(ks[i][3], ks[i][1], ks[i][4], ks[i][2])]

\* the pixels of the image of a frame, in one of two image sets
Pixels(set, t, c, p, s) ==
    IF set = "A" THEN <<1 + c, 1 + 4 * s + t, 5 + c>>
    ELSE <<2, 6 + t, 2 + 4 * c + s>>

\* intensity_meta.csv: the sampled pixels of every frame
SampleImages(set, rows) ==
    Flatten([i \in DOMAIN rows |->
               LET r == rows[i]
                   px == Pixels(set, r.time_idx, r.channel_idx, r.pos_idx, r.slice_idx)
               IN [j \in DOMAIN px |->
                     [dir_name |-> InputDir, channel_idx |-> r.channel_idx,
                      intensity |-> px[j]]]])

\* the fg_frac an earlier run left in every row of the frames table
StaleFg == 99

\* the cut point of a set of intensities: between the extremes
threshold_otsu(vals) == (Min(vals) + Max(vals)) \div 2
\* the cut point of the unimodal heuristic: above the darkest value
get_unimodal_threshold(vals) == Min(vals)

\* the frames table as the set of FrameRecords the index validation reads
FrameSet(rows) ==
    {FrameRecord(rows[i].time_idx, rows[i].channel_idx, rows[i].pos_idx,
                 rows[i].slice_idx) : i \in DOMAIN rows}

\* the mask channel is the largest channel index itself
mask_channel_of_Max(fm, arg) ==
    IF arg = NaN THEN Max({fm.rows[i].channel_idx : i \in DOMAIN fm.rows})
    ELSE arg[1]

\* self.mask_channel for the mask_channel argument arg (NaN is None)
mask_channel_of(fm, arg) ==
    IF arg = NaN THEN Max({fm.rows[i].channel_idx : i \in DOMAIN fm.rows}) + 1
    ELSE arg[1]

\* get_sub_meta: the rows of the selected channels
get_sub_meta(fm, chs) ==
    SelectSeq(fm.rows, LAMBDA r : r.channel_idx \in Range(chs))

\* get_channel_thr_df: one threshold per (dir_name, channel_idx) that has
\* samples, over the channels to mask, ordered by dir_name and channel_idx
get_channel_thr_df(ints, chs) ==
    LET sub == SelectSeq(ints, LAMBDA s : s.channel_idx \in Range(chs))
        cs == SortedSeq({sub[i].channel_idx : i \in DOMAIN sub})
    IN [i \in DOMAIN cs |->
          [dir_name |-> InputDir, channel_idx |-> cs[i],
           intensity |->
              threshold_otsu({sub[j].intensity :
                                 j \in {k \in DOMAIN sub : sub[k].channel_idx = cs[i]}})]]

\* the policy of the whole dataset goes by the name with an underscore
ValidMaskTypes_Underscore ==
    {"otsu", "unimodal", "dataset_otsu", "borders_weight_loss_map"}

\* the names the constructor's assertion lets through
ValidMaskTypes == {"otsu", "unimodal", "dataset otsu", "borders_weight_loss_map"}

\* every row is kept
drop_duplicates_KeepAll(rows) == rows

RECURSIVE drop_duplicates(_)
\* the rows of a frame without the repetitions of an earlier row
drop_duplicates(rows) ==
    IF rows = <<>> THEN <<>>
    ELSE LET init == drop_duplicates(SubSeq(rows, 1, Len(rows) - 1))
             last == rows[Len(rows)]
         IN IF last \in Range(init) THEN init ELSE Append(init, last)

\* get_meta_idx finds a frame for every channel to mask
HasInputs(mp, t, p, s) ==
    \A i \in DOMAIN mp.channel_ids :
        FrameRecord(t, mp.channel_ids[i], p, s) \in FrameSet(mp.frames_metadata.rows)

MaskJob(mp, t, p, s, thrs) ==
    [time_idx |-> t, pos_idx |-> p, slice_idx |-> s, channel_ids |-> mp.channel_ids,
     mask_channel |-> mp.mask_channel, mask_type |-> mp.mask_type,
     channel_thrs |-> thrs]

\* the uniform branch of generate_masks: one job per distinct
\* (dir_name, time, pos, slice) of the selected rows
UniformArgs(mp) ==
    LET sub == mp.frames_meta_sub
        id_df == drop_duplicates([i \in DOMAIN sub |->
                    <<sub[i].dir_name, sub[i].time_idx, sub[i].pos_idx,
                      sub[i].slice_idx>>])
        thrs(d) ==
            IF mp.mask_type = "dataset otsu"
            THEN LET sel == SelectSeq(mp.channel_thr_df, LAMBDA r : r.dir_name = d)
                 IN Val([i \in DOMAIN sel |-> sel[i].intensity])
            ELSE NaN
    IN [ok |-> \A i \in DOMAIN id_df : HasInputs(mp, id_df[i][2], id_df[i][3], id_df[i][4]),
        err |-> "IndexError",
        args |-> [i \in DOMAIN id_df |->
                    MaskJob(mp, id_df[i][2], id_df[i][3], id_df[i][4], thrs(id_df[i][1]))]]

\* the other branch: the leaves of the first channel to mask in the
\* IndexTree, no thresholds in the job
NonUniformArgs(mp) ==
    LET tree == mp.nested_id_dict
        ch0 == mp.channel_ids[1]
        leaves(i) ==
            LET pd == Get(tree[i][2], ch0)
            IN Flatten([j \in DOMAIN pd |->
                          [k \in DOMAIN pd[j][2] |-> <<tree[i][1], pd[j][1], pd[j][2][k]>>]])
    IN IF \E i \in DOMAIN tree : ch0 \notin Keys(tree[i][2])
       THEN [ok |-> FALSE, err |-> "KeyError", args |-> <<>>]
       ELSE LET ls == Flatten([i \in DOMAIN tree |-> leaves(i)])
            IN [ok |-> \A i \in DOMAIN ls : HasInputs(mp, ls[i][1], ls[i][2], ls[i][3]),
                err |-> "IndexError",
                args |-> [i \in DOMAIN ls |->
                            MaskJob(mp, ls[i][1], ls[i][2], ls[i][3], NaN)]]

\* the images of the channels to mask at the key of a job, in channel_ids order
InputImages(set, job) ==
    [i \in DOMAIN job.channel_ids |->
        Pixels(set, job.time_idx, job.channel_ids[i], job.pos_idx, job.slice_idx)]

RECURSIVE SumSeq(_)
SumSeq(xs) == IF xs = <<>> THEN 0 ELSE Head(xs) + SumSeq(Tail(xs))

\* a job of the dataset policy needs one threshold per image
JobRaises(job) ==
    /\ job.mask_type = "dataset otsu"
    /\ \/ job.channel_thrs = NaN
       \/ Len(job.channel_thrs[1]) < Len(job.channel_ids)

\* the foreground indicator of each pixel of the mask of a job
MaskOf(set, job) ==
    LET ims == InputImages(set, job)
        px == DOMAIN ims[1]
        sum == [x \in px |-> SumSeq([i \in DOMAIN ims |-> ims[i][x]])]
    IN IF job.mask_type = "dataset otsu"
       THEN [x \in px |-> \E i \in DOMAIN ims : ims[i][x] > job.channel_thrs[1][i]]
       ELSE IF job.mask_type = "unimodal"
       THEN [x \in px |-> sum[x] > get_unimodal_threshold(Range(sum))]
       ELSE IF job.mask_type = "borders_weight_loss_map"
       THEN [x \in px |-> sum[x] > 0]
       ELSE [x \in px |-> sum[x] > threshold_otsu(Range(sum))]

\* create_save_mask: the MaskRecord of a job, fg_frac in percent
create_save_mask(set, job) ==
    LET m == MaskOf(set, job)
    IN [channel_idx |-> job.mask_channel, time_idx |-> job.time_idx,
        pos_idx |-> job.pos_idx, slice_idx |-> job.slice_idx,
        file_name |-> <<job.mask_channel, job.slice_idx, job.time_idx, job.pos_idx>>,
        fg_frac |-> (100 * Cardinality({x \in DOMAIN m : m[x]})) \div Len(m)]

\* the mask records are appended to the frames table as rows of their own
merge_fg_frac_AppendMasks(fm, mask_meta_df) ==
    [cols |-> fm.cols \cup {"fg_frac"},
     rows |-> fm.rows \o
              [i \in DOMAIN mask_meta_df |->
                 [MRow(mask_meta_df[i].time_idx, mask_meta_df[i].channel_idx,
                       mask_meta_df[i].pos_idx, mask_meta_df[i].slice_idx)
                    EXCEPT !.fg_frac = Val(mask_meta_df[i].fg_frac)]]]

\* pd.merge(fm, mask_meta_df[[pos, time, slice, fg_frac]], how='left',
\* on=[pos, time, slice]): one row per matching MaskRecord, the row itself
\* when there is none
merge_fg_frac(fm, mask_meta_df) ==
    [cols |-> fm.cols \cup {"fg_frac"},
     rows |-> Flatten([i \in DOMAIN fm.rows |->
                LET r == fm.rows[i]
                    ms == SelectSeq(mask_meta_df,
                             LAMBDA m : /\ m.pos_idx = r.pos_idx
                                        /\ m.time_idx = r.time_idx
                                        /\ m.slice_idx = r.slice_idx)
                IN IF ms = <<>> THEN <<r>>
                   ELSE [j \in DOMAIN ms |-> [r EXCEPT !.fg_frac = Val(ms[j].fg_frac)]]])]

\* the stale fg_frac column is handed to the merge
drop_fg_frac_Keep(fm) == fm

\* self.frames_metadata[cols_to_merge]: the table without its fg_frac column
drop_fg_frac(fm) == DropColumns(fm, {"fg_frac"})

ChannelIdArgs == {<<0>>, <<0, 1>>, <<1, 0>>, <<1>>}
MaskTypeArgs ==
    {"otsu", "unimodal", "dataset otsu", "dataset_otsu", "borders_weight_loss_map"}
MaskChannelArgs == {NaN, Val(1), Val(4)}
MaskArgs ==
    [channel_ids : ChannelIdArgs, uniform_struct : BOOLEAN,
     mask_type : MaskTypeArgs, mask_channel : MaskChannelArgs]

NoMaskProcessor == [constructed |-> FALSE]

MaskIdle ==
    /\ input_frames_csv = [cols |-> {}, rows |-> <<>>]
    /\ images = ""
    /\ intensity_meta_csv = [exists |-> FALSE, rows |-> <<>>]
    /\ mask_args = <<>>
    /\ mask_proc = NoMaskProcessor
    /\ mask_fn_args = <<>>
    /\ mask_meta_csv = [exists |-> FALSE, rows |-> <<>>]
    /\ mk_pc = "idle"
    /\ mk_err = ""
    /\ run_log = <<>>

MaskInit ==
    /\ \E shape1 \in Ch1Shapes, dir_col \in BOOLEAN, stale \in BOOLEAN :
          LET base == [cols |-> {"time_idx", "channel_idx", "pos_idx", "slice_idx"}
                                  \cup (IF dir_col THEN {"dir_name"} ELSE {}),
                       rows |-> MaskFramesOf(shape1)]
              named == IF dir_col THEN base
                       ELSE [base EXCEPT !.rows =
                               [i \in DOMAIN base.rows |->
                                  [base.rows[i] EXCEPT !.dir_name = NaN]]]
          IN input_frames_csv =
                IF stale THEN SetColumn(named, "fg_frac", Val(StaleFg)) ELSE named
    /\ images \in {"A", "B"}
    /\ intensity_meta_csv \in
          {[exists |-> TRUE, rows |-> SampleImages(images, input_frames_csv.rows)],
           [exists |-> FALSE, rows |-> <<>>]}
    /\ mask_args = <<>>
    /\ mask_proc = NoMaskProcessor
    /\ mask_fn_args = <<>>
    /\ mask_meta_csv = [exists |-> FALSE, rows |-> <<>>]
    /\ mk_pc = "new"
    /\ mk_err = ""
    /\ run_log = <<>>

\* a mask run ends with an exception; the run is logged
MaskRaise(e) ==
    /\ mk_pc' = "failed"
    /\ mk_err' = e
    /\ run_log' = Append(run_log, [ok |-> FALSE, err |-> e])

\* MaskProcessor.__init__; a later run constructs with the same arguments
\* and reads the frames table of input_dir as the earlier run left it
MaskProcessor(args) ==
    /\ \/ mk_pc = "new"
       \/ mk_pc \in {"generated", "failed"} /\ Len(run_log) < MaxRuns /\ args = mask_args
    /\ mask_args' = args
    /\ UNCHANGED <<tvars, zvars, evars, input_frames_csv, images, intensity_meta_csv,
                   mask_fn_args, mask_meta_csv>>
    /\ LET read == input_frames_csv
           fm == IF "dir_name" \in read.cols THEN read
                 ELSE SetColumn(read, "dir_name", InputDir)
           chs == args.channel_ids
       IN IF ~IndicesFound(FrameSet(fm.rows), chs)
          THEN MaskRaise("IndexNotFoundError") /\ mask_proc' = NoMaskProcessor
          ELSE IF args.mask_type \notin ValidMaskTypes
          THEN MaskRaise("AssertionError") /\ mask_proc' = NoMaskProcessor
          ELSE IF args.mask_type = "dataset otsu" /\ ~intensity_meta_csv.exists
          THEN MaskRaise("FileNotFoundError") /\ mask_proc' = NoMaskProcessor
          ELSE /\ mask_proc' =
                    [constructed |-> TRUE,
                     frames_metadata |-> fm,
                     mask_channel |-> mask_channel_of(fm, args.mask_channel),
                     frames_meta_sub |-> get_sub_meta(fm, chs),
                     channel_ids |-> chs,
                     uniform_struct |-> args.uniform_struct,
                     nested_id_dict |->
                        IF args.uniform_struct THEN <<>>
                        ELSE validate_metadata_indices(FrameSet(fm.rows), chs),
                     mask_type |-> args.mask_type,
                     channel_thr_df |->
                        IF args.mask_type = "dataset otsu"
                        THEN get_channel_thr_df(intensity_meta_csv.rows, chs)
                        ELSE <<>>]
               /\ mk_pc' = "constructed"
               /\ mk_err' = ""
               /\ UNCHANGED run_log

\* MaskProcessor.generate_masks, the pool of mask jobs included
generate_masks ==
    /\ mk_pc = "constructed"
    /\ UNCHANGED <<tvars, zvars, evars, images, intensity_meta_csv, mask_args>>
    /\ LET mp == mask_proc
           jobs == IF mp.uniform_struct THEN UniformArgs(mp) ELSE NonUniformArgs(mp)
       IN mask_fn_args' = IF jobs.ok THEN jobs.args ELSE <<>>
    /\ LET mp == mask_proc
           jobs == IF mp.uniform_struct THEN UniformArgs(mp) ELSE NonUniformArgs(mp)
       IN IF ~jobs.ok
          THEN /\ MaskRaise(jobs.err)
               /\ UNCHANGED <<input_frames_csv, mask_proc, mask_meta_csv>>
          ELSE IF \E i \in DOMAIN jobs.args : JobRaises(jobs.args[i])
          THEN /\ MaskRaise("WorkerError")
               /\ UNCHANGED <<input_frames_csv, mask_proc, mask_meta_csv>>
          ELSE IF jobs.args = <<>>
          THEN /\ MaskRaise("KeyError")
               /\ UNCHANGED <<input_frames_csv, mask_proc, mask_meta_csv>>
          ELSE LET mask_meta_df ==
                       sort_values([i \in DOMAIN jobs.args |->
                                      create_save_mask(images, jobs.args[i])])
                   merged == merge_fg_frac(drop_fg_frac(mp.frames_metadata), mask_meta_df)
               IN /\ mask_meta_csv' = [exists |-> TRUE, rows |-> mask_meta_df]
                  /\ mask_proc' = [mp EXCEPT !.frames_metadata = merged]
                  /\ input_frames_csv' = merged
                  /\ mk_pc' = "generated"
                  /\ mk_err' = ""
                  /\ run_log' = Append(run_log,
                                       [ok |-> TRUE, thr |-> mp.channel_thr_df,
                                        before |-> mp.frames_metadata,
                                        masks |-> mask_meta_df, frames |-> merged])

\* -------------------------------------------------------- MetricsEstimator
\* an array as far as the checks read it: shape and dtype
Array(shape, dtype) == [shape |-> shape, dtype |-> dtype]
\* mask=None
NoMask == [shape |-> <<>>, dtype |-> "None"]

TargetArrays == {Array(<<2, 2, 2>>, "float32"), Array(<<2, 2>>, "float32")}
PredictionArrays ==
    {Array(sh, dt) : sh \in {<<2, 2, 2>>, <<2, 2>>, <<2, 2, 3>>},
                     dt \in {"float32", "float64"}}
MaskArrays ==
    {NoMask} \cup {Array(sh, dt) : sh \in {<<2, 2, 2>>, <<2, 2>>, <<2, 2, 3>>},
                                  dt \in {"bool", "float32"}}
\* pred_name is a string, or a list of strings
PredNames == {"str", "list"}
EstimateFns == {"xyz", "xy", "xz", "yz"}

NoMetrics == [set |-> FALSE, rows |-> <<>>]

\* the mask is not looked at
assert_input_NoMaskCheck(target, prediction, pred_name, mask) ==
    /\ pred_name = "str"
    /\ target.shape = prediction.shape
    /\ target.dtype = prediction.dtype

\* MetricsEstimator.assert_input: TRUE when every assertion passes
assert_input(target, prediction, pred_name, mask) ==
    /\ pred_name = "str"
    /\ target.shape = prediction.shape
    /\ target.dtype = prediction.dtype
    /\ mask # NoMask => /\ target.shape = mask.shape
                        /\ mask.dtype = "bool"

\* the number of rows of an estimate: one for the volume, one per slice
\* along the axis of the loop otherwise
RowCount(fn, target) ==
    IF fn = "xyz" THEN 1
    ELSE IF fn = "xy" THEN target.shape[3]
    ELSE IF fn = "xz" THEN target.shape[1]
    ELSE target.shape[2]

\* compute_metrics_row raises for masked metrics without a mask
RowRaises(mask) == masked_metrics /\ mask = NoMask

\* the table of an estimate call: emptied, then one row per slice until a
\* row raises
EstimatedTable(fn, target, mask) ==
    [set |-> TRUE,
     rows |-> IF RowRaises(mask) THEN <<>>
              ELSE [i \in 1..RowCount(fn, target) |-> <<me_calls + 1, fn, i - 1>>]]

MetricsIdle ==
    /\ metrics_xyz = NoMetrics
    /\ metrics_xy = NoMetrics
    /\ metrics_xz = NoMetrics
    /\ metrics_yz = NoMetrics
    /\ masked_metrics = FALSE
    /\ me_args = <<>>
    /\ me_pc = "idle"
    /\ me_err = ""
    /\ me_calls = 0
    /\ rows_computed = 0

\* MetricsEstimator.__init__
MetricsInit ==
    /\ metrics_xyz = NoMetrics
    /\ metrics_xy = NoMetrics
    /\ metrics_xz = NoMetrics
    /\ metrics_yz = NoMetrics
    /\ masked_metrics \in BOOLEAN
    /\ me_args = <<>>
    /\ me_pc = "ready"
    /\ me_err = ""
    /\ me_calls = 0
    /\ rows_computed = 0

\* estimate_xyz_metrics, estimate_xy_metrics, estimate_xz_metrics and
\* estimate_yz_metrics, selected by fn
estimate_metrics(fn, target, prediction, pred_name, mask) ==
    /\ me_pc \in {"ready", "returned", "failed"}
    /\ me_calls < MaxEstimates
    /\ me_calls' = me_calls + 1
    /\ me_args' = [fn |-> fn, target |-> target, prediction |-> prediction,
                   pred_name |-> pred_name, mask |-> mask]
    /\ UNCHANGED <<tvars, zvars, mvars, masked_metrics>>
    /\ IF \/ ~assert_input(target, prediction, pred_name, mask)
          \/ fn # "xyz" /\ Len(target.shape) # 3
       THEN /\ me_pc' = "failed"
            /\ me_err' = "AssertionError"
            /\ UNCHANGED <<metrics_xyz, metrics_xy, metrics_xz, metrics_yz,
                           rows_computed>>
       ELSE LET table == EstimatedTable(fn, target, mask)
            IN /\ metrics_xyz' = IF fn = "xyz" THEN table ELSE metrics_xyz
               /\ metrics_xy' = IF fn = "xy" THEN table ELSE metrics_xy
               /\ metrics_xz' = IF fn = "xz" THEN table ELSE metrics_xz
               /\ metrics_yz' = IF fn = "yz" THEN table ELSE metrics_yz
               /\ rows_computed' =
                     rows_computed + (IF RowRaises(mask) THEN 1 ELSE Len(table.rows))
               /\ me_pc' = IF RowRaises(mask) THEN "failed" ELSE "returned"
               /\ me_err' = IF RowRaises(mask) THEN "TypeError" ELSE ""

\* ----------------------------------------------------------------- Init
TilerInit ==
    /\ \E sh \in [ChannelIds -> ChannelShapes] :
          frames_metadata = DatasetOf(sh)
    /\ requested_ids = <<>>
    /\ tile_meta \in {NoTable, OldTable}
    /\ pc = "new"
    /\ err = ""
    /\ channel_ids = <<>>
    /\ channel_depth = <<>>
    /\ nested_id_dict = <<>>
    /\ call = ""
    /\ tiled_ch_id = -1
    /\ ch0_ids = <<>>
    /\ ch0_depth = 0
    /\ remaining_ids = <<>>
    /\ mask_dir = [meta |-> {}, low |-> {}]
    /\ meta_df = <<>>
    /\ fn_args = <<>>
    /\ job_state = <<>>
    /\ raised = FALSE

TilerIdle ==
    /\ frames_metadata = {}
    /\ requested_ids = <<>>
    /\ tile_meta = NoTable
    /\ pc = "idle"
    /\ err = ""
    /\ channel_ids = <<>>
    /\ channel_depth = <<>>
    /\ nested_id_dict = <<>>
    /\ call = ""
    /\ tiled_ch_id = -1
    /\ ch0_ids = <<>>
    /\ ch0_depth = 0
    /\ remaining_ids = <<>>
    /\ mask_dir = [meta |-> {}, low |-> {}]
    /\ meta_df = <<>>
    /\ fn_args = <<>>
    /\ job_state = <<>>
    /\ raised = FALSE

\* a tiling run: the other components are not used
Init == TilerInit /\ ZscoreIdle /\ MaskIdle /\ MetricsIdle
\* the calls of compute_zscore_params on one table
InitZscore == TilerIdle /\ ZscoreInit /\ MaskIdle /\ MetricsIdle
\* the mask runs on one input directory
InitMask == TilerIdle /\ ZscoreIdle /\ MaskInit /\ MetricsIdle
\* the estimate calls on one MetricsEstimator
InitMetrics == TilerIdle /\ ZscoreIdle /\ MaskIdle /\ MetricsInit

\* the run ends with an exception: nothing else changes
Raise(e) ==
    /\ pc' = "failed"
    /\ err' = e

\* the jobs are handed to the pool: its num_workers workers take the first
\* jobs of the queue at once
Dispatch(args, phase) ==
    /\ fn_args' = args
    /\ job_state' = [i \in DOMAIN args |->
                       IF i <= num_workers THEN "running" ELSE "queued"]
    /\ raised' = FALSE
    /\ pc' = phase

\* ----------------------------------------------------------- operations
\* the constructor without its check of tile_dir
Construct_NoGuard(chs, depths) ==
    /\ pc = "new"
    /\ requested_ids' = chs
    /\ IF ~IndicesFound(frames_metadata, chs)
       THEN /\ Raise("IndexNotFound")
            /\ UNCHANGED <<channel_ids, channel_depth, nested_id_dict>>
       ELSE /\ pc' = "ready"
            /\ err' = ""
            /\ channel_ids' = chs
            /\ channel_depth' = [i \in DOMAIN chs |-> <<chs[i], depths[chs[i]]>>]
            /\ nested_id_dict' = validate_metadata_indices(frames_metadata, chs)
    /\ UNCHANGED <<zvars, mvars, evars, ch0_ids, ch0_depth, frames_metadata, tile_meta, call, tiled_ch_id, remaining_ids,
                   mask_dir, meta_df, fn_args, job_state, raised>>

\* ImageTilerNonUniform.__init__, lines 40-71
Construct(chs, depths) ==
    /\ pc = "new"
    /\ requested_ids' = chs
    /\ IF ~IndicesFound(frames_metadata, chs)
       THEN /\ Raise("IndexNotFound")
            /\ UNCHANGED <<channel_ids, channel_depth, nested_id_dict>>
       ELSE IF tile_meta.exists
       THEN /\ Raise("TileDirExists")
            /\ UNCHANGED <<channel_ids, channel_depth, nested_id_dict>>
       ELSE /\ pc' = "ready"
            /\ err' = ""
            /\ channel_ids' = chs
            /\ channel_depth' = [i \in DOMAIN chs |-> <<chs[i], depths[chs[i]]>>]
            /\ nested_id_dict' = validate_metadata_indices(frames_metadata, chs)
    /\ UNCHANGED <<zvars, mvars, evars, ch0_ids, ch0_depth, frames_metadata, tile_meta, call, tiled_ch_id, remaining_ids,
                   mask_dir, meta_df, fn_args, job_state, raised>>

\* tile_first_channel up to the dispatch of its jobs, lines 93-116
tile_first_channel(channel0_ids, channel0_depth, md, is_mask) ==
    LET args == FirstChannelArgs(channel0_ids, channel0_depth, is_mask)
    IN IF \E i \in DOMAIN args : ~FrameExists(frames_metadata, md, args[i])
       THEN /\ Raise("IndexError")
            /\ UNCHANGED <<fn_args, job_state, raised>>
       ELSE /\ Dispatch(args, "first")
            /\ err' = ""

\* tile_stack up to the dispatch of the reference jobs, lines 197-214
tile_stack ==
    /\ pc = "ready"
    /\ channel_ids # <<>>
    /\ LET ch_to_tile == channel_ids[1]
           ch_depth == Get(channel_depth, ch_to_tile)
           scan == Ch0Scan(nested_id_dict, ch_to_tile, 1, FALSE, <<>>, <<>>)
       IN /\ call' = "tile_stack"
          /\ tiled_ch_id' = ch_to_tile
          /\ remaining_ids' = RemoveChannel(nested_id_dict, ch_to_tile)
          /\ ch0_ids' = scan.ids
          /\ ch0_depth' = ch_depth
          /\ IF ~scan.ok
             THEN /\ Raise("NameError")
                  /\ UNCHANGED <<fn_args, job_state, raised>>
             ELSE tile_first_channel(scan.ids, ch_depth, mask_dir, FALSE)
    /\ UNCHANGED <<zvars, mvars, evars, frames_metadata, requested_ids, tile_meta, channel_ids, channel_depth,
                   nested_id_dict, mask_dir, meta_df>>

\* tile_mask_stack up to the dispatch of the mask jobs, lines 241-272
tile_mask_stack(md, mask_channel, mask_depth) ==
    /\ pc = "ready"
    /\ call' = "tile_mask_stack"
    /\ tiled_ch_id' = mask_channel
    /\ ch0_depth' = mask_depth
    /\ remaining_ids' = nested_id_dict
    /\ mask_dir' = md
    /\ IF mask_depth > Max({channel_depth[i][2] : i \in DOMAIN channel_depth})
       THEN /\ Raise("AssertionError")
            /\ UNCHANGED <<ch0_ids, fn_args, job_state, raised>>
       ELSE IF ~IndicesFound(md.meta, <<mask_channel>>)
       THEN /\ Raise("IndexNotFound")
            /\ UNCHANGED <<ch0_ids, fn_args, job_state, raised>>
       ELSE LET mask_ch_ids ==
                    MaskChIds(validate_metadata_indices(md.meta, <<mask_channel>>),
                              mask_channel)
            IN /\ ch0_ids' = mask_ch_ids
               /\ tile_first_channel(mask_ch_ids, mask_depth, md, TRUE)
    /\ UNCHANGED <<zvars, mvars, evars, frames_metadata, requested_ids, tile_meta, channel_ids, channel_depth,
                   nested_id_dict, meta_df>>

\* job i returns and its worker takes the next job of the queue
Returned(i) ==
    LET queued == {j \in DOMAIN job_state : job_state[j] = "queued"}
    IN [j \in DOMAIN job_state |->
          IF j = i THEN "returned"
          ELSE IF queued # {} /\ j = Min(queued) THEN "running"
          ELSE job_state[j]]

\* a running job returns its metadata
FinishJob ==
    /\ pc \in {"first", "rest"}
    /\ \E i \in DOMAIN job_state :
          /\ job_state[i] = "running"
          /\ job_state' = Returned(i)
    /\ UNCHANGED <<zvars, mvars, evars, ch0_ids, ch0_depth, frames_metadata, requested_ids, tile_meta, pc, err, channel_ids,
                   channel_depth, nested_id_dict, call, tiled_ch_id,
                   remaining_ids, mask_dir, meta_df, fn_args, raised>>

\* a running job raises (an unreadable image, a full disk)
FailJob ==
    /\ pc \in {"first", "rest"}
    /\ \E i \in DOMAIN job_state :
          /\ job_state[i] = "running"
          /\ job_state' = Returned(i)
    /\ raised' = TRUE
    /\ UNCHANGED <<zvars, mvars, evars, ch0_ids, ch0_depth, frames_metadata, requested_ids, tile_meta, pc, err, channel_ids,
                   channel_depth, nested_id_dict, call, tiled_ch_id,
                   remaining_ids, mask_dir, meta_df, fn_args>>

\* the pool hands back as soon as one job has returned
AllReturned_FirstReturned == \E i \in DOMAIN job_state : job_state[i] = "returned"

\* the pool call of a phase returns when every job of the phase has returned
AllReturned == \A i \in DOMAIN job_state : job_state[i] = "returned"

\* tile_remaining_channels up to the dispatch of its jobs, lines 138-169
tile_remaining_channels(nested, tiled, cur_meta_df, chs) ==
    IF ~(ChannelsOf(nested) \subseteq Range(chs))
    THEN /\ Raise("ValueError")
         /\ UNCHANGED <<fn_args, job_state, raised>>
    ELSE /\ Dispatch(RemainingArgs(nested, channel_depth, tiled, cur_meta_df),
                     "rest")
         /\ err' = ""

\* the rest of tile_first_channel, lines 116-123, and what its caller does
\* next: tile_stack lines 216-220, tile_mask_stack lines 274-278
FirstCollect ==
    /\ pc = "first"
    /\ AllReturned
    /\ \E order \in CompletionOrders(Len(fn_args)) :
       IF raised
       THEN /\ Raise("WorkerError")
            /\ UNCHANGED <<tile_meta, meta_df, channel_ids, fn_args, job_state, raised>>
       ELSE IF fn_args = <<>>
       THEN /\ Raise("ValueError")
            /\ UNCHANGED <<tile_meta, meta_df, channel_ids, fn_args, job_state, raised>>
       ELSE LET ch0_meta_df ==
                    sort_values(Flatten(InOrder(PoolResults(mask_dir, fn_args),
                                                order)))
            IN /\ meta_df' = ch0_meta_df
               /\ tile_meta' = [exists |-> TRUE, rows |-> ch0_meta_df]
               /\ IF call = "tile_stack"
                  THEN /\ channel_ids' = Tail(channel_ids)
                       /\ IF channel_ids' # <<>>
                          THEN tile_remaining_channels(remaining_ids, tiled_ch_id,
                                                       ch0_meta_df, channel_ids')
                          ELSE /\ pc' = "done"
                               /\ err' = ""
                               /\ UNCHANGED <<fn_args, job_state, raised>>
                  ELSE /\ UNCHANGED channel_ids
                       /\ tile_remaining_channels(remaining_ids, tiled_ch_id,
                                                  ch0_meta_df, channel_ids)
    /\ UNCHANGED <<zvars, mvars, evars, ch0_ids, ch0_depth, frames_metadata, requested_ids, channel_depth, nested_id_dict, call,
                   tiled_ch_id, remaining_ids, mask_dir>>

\* a propagation phase that leaves out the job that raised and writes the
\* records of the others
RestCollect_SkipFailed ==
    /\ pc = "rest"
    /\ AllReturned
    /\ IF fn_args = <<>>
       THEN /\ Raise("ValueError")
            /\ UNCHANGED tile_meta
       ELSE LET tiled_metadata ==
                    sort_values(meta_df \o
                                Flatten(PoolResults(mask_dir, Tail(fn_args))))
            IN /\ tile_meta' = [exists |-> TRUE, rows |-> tiled_metadata]
               /\ pc' = "done"
               /\ err' = ""
    /\ UNCHANGED <<zvars, mvars, evars, ch0_ids, ch0_depth, frames_metadata, requested_ids, channel_ids, channel_depth, nested_id_dict,
                   call, tiled_ch_id, remaining_ids, mask_dir, meta_df, fn_args,
                   job_state, raised>>

\* the rest of tile_remaining_channels, lines 166-182
RestCollect ==
    /\ pc = "rest"
    /\ AllReturned
    /\ \E order \in CompletionOrders(Len(fn_args)) :
       IF raised
       THEN /\ Raise("WorkerError")
            /\ UNCHANGED tile_meta
       ELSE IF fn_args = <<>>
       THEN /\ Raise("ValueError")
            /\ UNCHANGED tile_meta
       ELSE LET tiled_metadata ==
                    sort_values(meta_df \o
                                Flatten(InOrder(PoolResults(mask_dir, fn_args),
                                                order)))
            IN /\ tile_meta' = [exists |-> TRUE, rows |-> tiled_metadata]
               /\ pc' = "done"
               /\ err' = ""
    /\ UNCHANGED <<zvars, mvars, evars, ch0_ids, ch0_depth, frames_metadata, requested_ids, channel_ids, channel_depth, nested_id_dict,
                   call, tiled_ch_id, remaining_ids, mask_dir, meta_df, fn_args,
                   job_state, raised>>

\* what a new tiler object holds before its constructor has set a field
NewObject ==
    /\ call' = ""
    /\ tiled_ch_id' = -1
    /\ ch0_ids' = <<>>
    /\ ch0_depth' = 0
    /\ remaining_ids' = <<>>
    /\ mask_dir' = [meta |-> {}, low |-> {}]
    /\ meta_df' = <<>>
    /\ fn_args' = <<>>
    /\ job_state' = <<>>
    /\ raised' = FALSE

\* a later constructor that does not look at tile_dir
Reconstruct_NoGuard(chs, depths) ==
    /\ pc \in {"done", "failed"}
    /\ requested_ids' = chs
    /\ NewObject
    /\ IF ~IndicesFound(frames_metadata, chs)
       THEN /\ Raise("IndexNotFound")
            /\ channel_ids' = <<>>
            /\ channel_depth' = <<>>
            /\ nested_id_dict' = <<>>
       ELSE /\ pc' = "ready"
            /\ err' = ""
            /\ channel_ids' = chs
            /\ channel_depth' = [i \in DOMAIN chs |-> <<chs[i], depths[chs[i]]>>]
            /\ nested_id_dict' = validate_metadata_indices(frames_metadata, chs)
    /\ UNCHANGED <<zvars, mvars, evars, frames_metadata, tile_meta>>

\* ImageTilerNonUniform.__init__, lines 40-71, called after an earlier run
\* on the same input and tile directories has ended: a new object
Reconstruct(chs, depths) ==
    /\ pc \in {"done", "failed"}
    /\ requested_ids' = chs
    /\ NewObject
    /\ IF ~IndicesFound(frames_metadata, chs)
       THEN /\ Raise("IndexNotFound")
            /\ channel_ids' = <<>>
            /\ channel_depth' = <<>>
            /\ nested_id_dict' = <<>>
       ELSE IF tile_meta.exists
       THEN /\ Raise("TileDirExists")
            /\ channel_ids' = <<>>
            /\ channel_depth' = <<>>
            /\ nested_id_dict' = <<>>
       ELSE /\ pc' = "ready"
            /\ err' = ""
            /\ channel_ids' = chs
            /\ channel_depth' = [i \in DOMAIN chs |-> <<chs[i], depths[chs[i]]>>]
            /\ nested_id_dict' = validate_metadata_indices(frames_metadata, chs)
    /\ UNCHANGED <<zvars, mvars, evars, frames_metadata, tile_meta>>

\* a repeated call that looks at tile_dir as the constructor does
tile_stack_repeated_Guarded ==
    /\ pc = "done"
    /\ call' = "tile_stack"
    /\ meta_df' = <<>>
    /\ Raise(IF tile_meta.exists THEN "TileDirExists" ELSE "IndexError")
    /\ UNCHANGED <<tiled_ch_id, ch0_ids, ch0_depth, remaining_ids,
                   fn_args, job_state, raised>>
    /\ UNCHANGED <<zvars, mvars, evars, frames_metadata, requested_ids, tile_meta,
                   channel_ids, channel_depth, nested_id_dict, mask_dir>>

\* tile_stack, lines 197-214, called again on an object whose earlier
\* tiling call has returned
tile_stack_repeated ==
    /\ pc = "done"
    /\ call' = "tile_stack"
    /\ meta_df' = <<>>
    /\ IF channel_ids = <<>>
       THEN /\ Raise("IndexError")
            /\ UNCHANGED <<tiled_ch_id, ch0_ids, ch0_depth, remaining_ids,
                           fn_args, job_state, raised>>
       ELSE LET ch_to_tile == channel_ids[1]
                ch_depth == Get(channel_depth, ch_to_tile)
                scan == Ch0Scan(nested_id_dict, ch_to_tile, 1, FALSE, <<>>, <<>>)
            IN /\ tiled_ch_id' = ch_to_tile
               /\ remaining_ids' = RemoveChannel(nested_id_dict, ch_to_tile)
               /\ ch0_ids' = scan.ids
               /\ ch0_depth' = ch_depth
               /\ IF ~scan.ok
                  THEN /\ Raise("NameError")
                       /\ UNCHANGED <<fn_args, job_state, raised>>
                  ELSE tile_first_channel(scan.ids, ch_depth, mask_dir, FALSE)
    /\ UNCHANGED <<zvars, mvars, evars, frames_metadata, requested_ids, tile_meta,
                   channel_ids, channel_depth, nested_id_dict, mask_dir>>

Next ==
    \/ \E chs \in ChannelIdChoices, depths \in [ChannelIds -> DepthChoices] :
          Construct(chs, depths)
    \/ tile_stack
    \/ \E md \in MaskDirs \cup {CollidingMaskDir}, mask_depth \in DepthChoices :
          tile_mask_stack(md, MaskChannelIn(md), mask_depth)
    \/ FinishJob
    \/ FailJob
    \/ FirstCollect
    \/ RestCollect

Spec == Init /\ [][Next]_vars

\* the tiler with later calls: tile_stack again on the object, and a later
\* construction on the same directories
NextRepeat ==
    \/ Next
    \/ tile_stack_repeated
    \/ \E chs \in ChannelIdChoices, depths \in [ChannelIds -> DepthChoices] :
          Reconstruct(chs, depths)

SpecRepeat == Init /\ [][NextRepeat]_vars

NextZscore ==
    \E n \in NormalizeChoices, mf \in MinFractionChoices : compute_zscore_params(n, mf)

SpecZscore == InitZscore /\ [][NextZscore]_vars

NextMask ==
    \/ \E args \in MaskArgs : MaskProcessor(args)
    \/ generate_masks

SpecMask == InitMask /\ [][NextMask]_vars

NextMetrics ==
    \E fn \in EstimateFns, target \in TargetArrays, prediction \in PredictionArrays,
       pred_name \in PredNames, mask \in MaskArrays :
        estimate_metrics(fn, target, prediction, pred_name, mask)

SpecMetrics == InitMetrics /\ [][NextMetrics]_vars

\* the two back-merges into a frames table: a run is one of
\* compute_zscore_params calls or one of mask runs
InitMerge == InitZscore \/ InitMask
NextMerge == NextZscore \/ NextMask
SpecMerge == InitMerge /\ [][NextMerge]_vars


\* ------------------------------------------------------------- claims
Rows == Range(tile_meta.rows)

SameKey(r, q) ==
    /\ r.time_idx = q.time_idx
    /\ r.pos_idx = q.pos_idx
    /\ r.slice_idx = q.slice_idx

SameOrigin(r, q) ==
    /\ r.row_start = q.row_start
    /\ r.col_start = q.col_start

\* the reference (channel or mask) has a frame at (t, p, s)
RefFrameAt(t, p, s) ==
    IF call = "tile_mask_stack"
    THEN \E m \in mask_dir.meta :
            m.time_idx = t /\ m.pos_idx = p /\ m.slice_idx = s
    ELSE FrameRecord(t, tiled_ch_id, p, s) \in frames_metadata

\* C1: once a tiling run has begun, every TileRecord of a non-reference
\* channel in the table has the origin of a reference TileRecord of the
\* table at the same (time, pos, slice), and every job of the propagation
\* phase is a crop job whose coordinates are recorded reference coordinates
\* of its own (time, pos, slice).
C1_RemainingUseReferenceOrigins ==
    call # "" =>
        /\ \A r \in Rows :
              r.channel_idx # tiled_ch_id =>
                  \E q \in Rows : /\ q.channel_idx = tiled_ch_id
                                  /\ SameKey(r, q)
                                  /\ SameOrigin(r, q)
        /\ pc = "rest" =>
              \A i \in DOMAIN fn_args :
                  /\ fn_args[i].task = "crop"
                  /\ fn_args[i].tile_indices # <<>>
                  /\ Range(fn_args[i].tile_indices) \subseteq
                        Range(get_tile_indices(meta_df, fn_args[i].time_idx,
                                               tiled_ch_id, fn_args[i].pos_idx,
                                               fn_args[i].slice_idx))

\* C1 witness: a finished run whose table holds propagated tiles, while a
\* frame of a remaining channel at a key without reference tiles got none
C1_Witness ==
    /\ pc = "done"
    /\ \E r \in Rows : r.channel_idx # tiled_ch_id
    /\ \E f \in frames_metadata :
          /\ f.channel_idx \in Range(requested_ids)
          /\ f.channel_idx # tiled_ch_id
          /\ ~\E q \in Rows : q.channel_idx = tiled_ch_id /\ SameKey(f, q)
          /\ ~\E r \in Rows : r.channel_idx = f.channel_idx /\ SameKey(f, r)

\* C2: no TileRecord of a requested non-reference channel lies at a
\* (time, pos, slice) at which the reference has a frame and that channel
\* has none.
C2_NoFabricatedTiles ==
    call # "" =>
        \A r \in Rows :
            (r.channel_idx # tiled_ch_id
                /\ RefFrameAt(r.time_idx, r.pos_idx, r.slice_idx))
            => FrameRecord(r.time_idx, r.channel_idx, r.pos_idx, r.slice_idx)
                  \in frames_metadata

\* C2 witness: a finished tile_stack run in which the reference has tiles at
\* slices 0..2 of a position, and another channel, holding slices 0 and 1
\* only, has TileRecords at slices 0 and 1 and none at slice 2
C2_Witness ==
    /\ pc = "done"
    /\ call = "tile_stack"
    /\ \E t \in TimeIds, p \in PosIds, c \in ChannelIds :
          /\ c # tiled_ch_id
          /\ SlicesAt(frames_metadata, t, tiled_ch_id, p) = {0, 1, 2}
          /\ SlicesAt(frames_metadata, t, c, p) = {0, 1}
          /\ {r.slice_idx : r \in {q \in Rows : /\ q.channel_idx = tiled_ch_id
                                                 /\ q.time_idx = t
                                                 /\ q.pos_idx = p}} = {0, 1, 2}
          /\ {r.slice_idx : r \in {q \in Rows : /\ q.channel_idx = c
                                                 /\ q.time_idx = t
                                                 /\ q.pos_idx = p}} = {0, 1}

C4_ExistingTableAborts ==
    [][(pc = "new" /\ tile_meta.exists
            /\ IndicesFound(frames_metadata, requested_ids'))
        => /\ pc' = "failed"
           /\ err' = "TileDirExists"
           /\ tile_meta' = tile_meta
           /\ fn_args' = <<>>
           /\ job_state' = <<>>]_vars

\* C4 witness: a construction that failed on an existing table
C4_Witness ==
    /\ pc = "failed"
    /\ err = "TileDirExists"
    /\ tile_meta = OldTable
    /\ IndicesFound(frames_metadata, requested_ids)

\* --------------------------------------- claims on compute_zscore_params
Scopes == {"dataset", "volume", "slice"}

\* the samples that pass the foreground filter and agree with a FrameRecord
\* in directory, channel and time, in position from 'volume' on, in slice
\* for 'slice'
ScopeSamples(r, n, mf) ==
    SelectSeq(ints_meta,
              LAMBDA s : /\ s.fg_frac >= mf
                         /\ s.dir_name = r.dir_name
                         /\ s.channel_idx = r.channel_idx
                         /\ s.time_idx = r.time_idx
                         /\ (n \in {"volume", "slice"} => s.pos_idx = r.pos_idx)
                         /\ (n = "slice" => s.slice_idx = r.slice_idx))

ScopeInts(r) ==
    LET g == ScopeSamples(r, normalize_im, zs_min_fraction)
    IN SortInts([i \in DOMAIN g |-> g[i].intensity])

\* C5 (as claimed): with normalize_im = None the returned table has
\* zscore_median = 0 and zscore_iqr = 1 in every FrameRecord.
C5_NoneWritesZeroAndOne ==
    (zs_pc = "returned" /\ normalize_im = "None") =>
        /\ {"zscore_median", "zscore_iqr"} \subseteq zscore_ret.cols
        /\ \A i \in DOMAIN zscore_ret.rows :
              /\ zscore_ret.rows[i].zscore_median = Val(Quarters(0))
              /\ zscore_ret.rows[i].zscore_iqr = Val(Quarters(1))

\* C6 (as claimed): with 'dataset' any two FrameRecords sharing
\* (dir_name, channel_idx) receive the same zscore_median and zscore_iqr.
C6_DatasetGroupsByDirAndChannel ==
    (zs_pc = "returned" /\ normalize_im = "dataset") =>
        \A i, j \in DOMAIN zscore_ret.rows :
            (/\ zscore_ret.rows[i].dir_name = zscore_ret.rows[j].dir_name
             /\ zscore_ret.rows[i].channel_idx = zscore_ret.rows[j].channel_idx)
            => /\ zscore_ret.rows[i].zscore_median = zscore_ret.rows[j].zscore_median
               /\ zscore_ret.rows[i].zscore_iqr = zscore_ret.rows[j].zscore_iqr

\* C6 (amended): every scope groups by (dir_name, channel_idx, time_idx),
\* 'volume' adds pos_idx and 'slice' adds pos_idx and slice_idx; a
\* FrameRecord whose group has samples with fg_frac >= min_fraction gets the
\* median and the inter-quartile range of exactly those samples, so that
\* FrameRecords of one group get the same values.
C6_ScopeGroupsIncludeTime ==
    (zs_pc = "returned" /\ normalize_im \in Scopes) =>
        \A i \in DOMAIN zscore_ret.rows :
            LET xs == ScopeInts(zscore_ret.rows[i])
            IN xs # <<>> =>
                 /\ zscore_ret.rows[i].zscore_median = Val(Quantile4(xs, 2))
                 /\ zscore_ret.rows[i].zscore_iqr
                       = Val(Quantile4(xs, 3) - Quantile4(xs, 1))

\* a 'volume' call after which two FrameRecords of one directory, channel
\* and time at different positions hold different medians, and two slices of
\* one position the same median
C6_Witness ==
    /\ zs_pc = "returned"
    /\ normalize_im = "volume"
    /\ \E i, j, k \in DOMAIN zscore_ret.rows :
          LET a == zscore_ret.rows[i]
              b == zscore_ret.rows[j]
              c == zscore_ret.rows[k]
          IN /\ KeyOf(a, agg_cols("dataset")) = KeyOf(b, agg_cols("dataset"))
             /\ a.pos_idx # b.pos_idx
             /\ a.zscore_median # NaN /\ b.zscore_median # NaN
             /\ a.zscore_median # b.zscore_median
             /\ KeyOf(a, agg_cols("volume")) = KeyOf(c, agg_cols("volume"))
             /\ a.slice_idx # c.slice_idx
             /\ a.zscore_median = c.zscore_median

\* C7 (as claimed): a FrameRecord whose grouping key has no aggregated
\* samples keeps the zscore_median and zscore_iqr it had before the call.
C7_UnmatchedKeepPriorValues ==
    (zs_pc = "returned" /\ normalize_im \in Scopes) =>
        \A i \in DOMAIN zscore_ret.rows :
            ScopeInts(zscore_ret.rows[i]) = <<>> =>
                /\ zscore_ret.rows[i].zscore_median = frames_meta.rows[i].zscore_median
                /\ zscore_ret.rows[i].zscore_iqr = frames_meta.rows[i].zscore_iqr

\* C7 (amended): a FrameRecord whose grouping key has no aggregated samples
\* has missing (NaN) zscore_median and zscore_iqr in the returned table,
\* whatever it held before the call, and the returned table is the one
\* persisted.
C7_UnmatchedGetMissingValues ==
    (zs_pc = "returned" /\ normalize_im \in Scopes) =>
        /\ frames_meta_csv = [exists |-> TRUE, table |-> zscore_ret]
        /\ Len(zscore_ret.rows) = Len(frames_meta.rows)
        /\ \A i \in DOMAIN zscore_ret.rows :
              ScopeInts(zscore_ret.rows[i]) = <<>> =>
                  /\ zscore_ret.rows[i].zscore_median = NaN
                  /\ zscore_ret.rows[i].zscore_iqr = NaN

\* a call whose foreground filter removed every sample of the group of a
\* FrameRecord that came in with statistics of an earlier call
C7_Witness ==
    /\ zs_pc = "returned"
    /\ normalize_im \in Scopes
    /\ \E i \in DOMAIN zscore_ret.rows :
          /\ ScopeInts(zscore_ret.rows[i]) = <<>>
          /\ ScopeSamples(zscore_ret.rows[i], normalize_im, 0) # <<>>
          /\ frames_meta.rows[i].zscore_median # NaN
          /\ frames_meta.rows[i].zscore_iqr # NaN
          /\ zscore_ret.rows[i].zscore_median = NaN

\* ----------------------------------------------- claims on MaskProcessor
FrameChannels == {input_frames_csv.rows[i].channel_idx : i \in DOMAIN input_frames_csv.rows}

\* the MaskRecords at the (pos, time, slice) of a FrameRecord
MasksAt(masks, r) ==
    SelectSeq(masks, LAMBDA m : /\ m.pos_idx = r.pos_idx
                                /\ m.time_idx = r.time_idx
                                /\ m.slice_idx = r.slice_idx)

\* C8: without a mask_channel argument the object's mask_channel is
\* max(channel_idx of the frames table) + 1 and differs from every channel
\* index of the frames table; with the argument it is the argument.
C8_MaskChannelAssigned ==
    mask_proc.constructed =>
        IF mask_args.mask_channel = NaN
        THEN /\ mask_proc.mask_channel = Max(FrameChannels) + 1
             /\ mask_proc.mask_channel \notin FrameChannels
        ELSE mask_proc.mask_channel = mask_args.mask_channel[1]

\* an object constructed without the argument over a table with channels 0 and 1
C8_Witness ==
    /\ mk_pc = "constructed"
    /\ mask_args.mask_channel = NaN
    /\ FrameChannels = {0, 1}
    /\ mask_proc.mask_channel = 2

\* C9: after generate_masks every FrameRecord holds the fg_frac of the
\* MaskRecord at its (pos_idx, time_idx, slice_idx), or none if there is no
\* such MaskRecord; nothing of the fg_frac column it came with is left; the
\* mask table and the frames table are both persisted.
C9_FgFracMergedAndPersisted ==
    mk_pc = "generated" =>
        LET last == run_log[Len(run_log)]
        IN /\ mask_meta_csv = [exists |-> TRUE, rows |-> last.masks]
           /\ input_frames_csv = mask_proc.frames_metadata
           /\ "fg_frac" \in input_frames_csv.cols
           /\ Len(input_frames_csv.rows) = Len(last.before.rows)
           /\ \A i \in DOMAIN input_frames_csv.rows :
                 LET r == input_frames_csv.rows[i]
                     ms == MasksAt(mask_meta_csv.rows, r)
                 IN /\ [r EXCEPT !.fg_frac = NaN]
                          = [last.before.rows[i] EXCEPT !.fg_frac = NaN]
                    /\ IF ms = <<>> THEN r.fg_frac = NaN
                       ELSE \A j \in DOMAIN ms : r.fg_frac = Val(ms[j].fg_frac)

\* a run over a table that came with a stale fg_frac column: one FrameRecord
\* has a MaskRecord at its key, another has none
C9_Witness ==
    /\ mk_pc = "generated"
    /\ LET last == run_log[Len(run_log)]
       IN \E i, j \in DOMAIN input_frames_csv.rows :
             /\ last.before.rows[i].fg_frac = Val(StaleFg)
             /\ last.before.rows[j].fg_frac = Val(StaleFg)
             /\ MasksAt(mask_meta_csv.rows, input_frames_csv.rows[i]) # <<>>
             /\ input_frames_csv.rows[i].fg_frac # NaN
             /\ MasksAt(mask_meta_csv.rows, input_frames_csv.rows[j]) = <<>>
             /\ input_frames_csv.rows[j].fg_frac = NaN

\* C10: with the 'dataset otsu' policy a second run with the same arguments,
\* reading the frames table the first run persisted, ends as the first did,
\* with the same per-(directory, channel) thresholds, the same MaskRecords
\* and the same fg_frac in every FrameRecord.
C10_SecondRunRepeatsFirst ==
    (Len(run_log) >= 2 /\ mask_args.mask_type = "dataset otsu") =>
        \A k \in 2..Len(run_log) :
            /\ run_log[k].ok = run_log[1].ok
            /\ IF run_log[1].ok
               THEN /\ run_log[k].thr = run_log[1].thr
                    /\ run_log[k].masks = run_log[1].masks
                    /\ run_log[k].frames = run_log[1].frames
               ELSE run_log[k].err = run_log[1].err

\* two finished 'dataset otsu' runs that applied thresholds of two channels
C10_Witness ==
    /\ Len(run_log) = 2
    /\ mask_args.mask_type = "dataset otsu"
    /\ run_log[1].ok /\ run_log[2].ok
    /\ Len(run_log[1].thr) = 2
    /\ run_log[1].before # run_log[2].before
    /\ \E i, j \in DOMAIN run_log[2].masks :
          run_log[2].masks[i].fg_frac # run_log[2].masks[j].fg_frac


\* a step of the constructor on a frames table that holds every requested
\* channel
ConstructionStep ==
    /\ mk_pc # "constructed"
    /\ mk_pc' \in {"constructed", "failed"}
    /\ IndicesFound(FrameSet(input_frames_csv.rows), mask_args'.channel_ids)

C12_WorkerFailureAbortsPhase ==
    [][(pc \in {"first", "rest"} /\ raised /\ pc' # pc) =>
          /\ pc' = "failed"
          /\ err' = "WorkerError"
          /\ tile_meta' = tile_meta]_vars

\* a propagation phase that failed on a raising job: the table still holds
\* the reference records alone
C12_Witness ==
    /\ pc = "failed"
    /\ err = "WorkerError"
    /\ raised
    /\ Len(fn_args) >= 2
    /\ fn_args[1].task = "crop"
    /\ tile_meta = [exists |-> TRUE, rows |-> meta_df]

\* the rows are ascending by file_name
Ascending(rows) ==
    \A i, j \in DOMAIN rows : i < j => ~TupleLess(rows[j].file_name, rows[i].file_name)

\* how often a record occurs in a frame
Count(rows, r) == Cardinality({i \in DOMAIN rows : rows[i] = r})

\* the TileRecords the phase that is finishing has to write: the frames of
\* its jobs, after propagation together with the reference table
PhaseRecords ==
    (IF pc = "first" THEN <<>> ELSE meta_df) \o Flatten(PoolResults(mask_dir, fn_args))

\* C13: whenever a phase writes the table, the table holds exactly the
\* TileRecords of the phase's jobs (after propagation together with the
\* reference records), each as often as it was returned, in ascending
\* file_name order: one table, whatever the order in which the jobs ran and
\* their frames came back.
C13_TableIndependentOfJobOrder ==
    [][tile_meta' # tile_meta =>
          /\ Ascending(tile_meta'.rows)
          /\ Len(tile_meta'.rows) = Len(PhaseRecords)
          /\ \A r \in Range(PhaseRecords) \cup Range(tile_meta'.rows) :
                Count(tile_meta'.rows, r) = Count(PhaseRecords, r)]_vars

\* a finished run of both phases over several jobs
C13_Witness ==
    /\ pc = "done"
    /\ Len(fn_args) >= 3
    /\ fn_args[1].task = "crop"
    /\ Len(tile_meta.rows) > Len(meta_df)
    /\ \E i, j \in DOMAIN tile_meta.rows :
          tile_meta.rows[i].channel_idx # tile_meta.rows[j].channel_idx


\* the identity of a TileRecord
TileIdentity(r) ==
    <<r.time_idx, r.channel_idx, r.slice_idx, r.pos_idx, r.row_start, r.col_start>>

\* C16 (as claimed): no crop job is submitted for the reference channel, and
\* every TileRecord identity occurs at most once in the table.
C16_ReferenceNotPropagated ==
    call # "" =>
        /\ pc = "rest" =>
              \A i \in DOMAIN fn_args : fn_args[i].channel_idx # tiled_ch_id
        /\ \A i, j \in DOMAIN tile_meta.rows :
              i # j => TileIdentity(tile_meta.rows[i]) # TileIdentity(tile_meta.rows[j])


\* C20: the table changes only in a step of the caller that ends a phase
\* whose jobs have all returned; a step in which a job returns leaves the
\* table alone; the propagation jobs are dispatched only in the step that
\* persists the assembled reference table, and are crop jobs of it.
C20_TableWrittenByCallerAfterJobs ==
    [][/\ tile_meta' # tile_meta
            => /\ pc \in {"first", "rest"}
               /\ pc' # pc
               /\ \A i \in DOMAIN job_state : job_state[i] = "returned"
       /\ (pc' = pc /\ job_state' # job_state) => tile_meta' = tile_meta
       /\ (pc' = "rest" /\ pc # "rest")
            => /\ pc = "first"
               /\ \A i \in DOMAIN job_state : job_state[i] = "returned"
               /\ tile_meta' = [exists |-> TRUE, rows |-> meta_df']
               /\ meta_df' # <<>>
               /\ \A i \in DOMAIN fn_args' : fn_args'[i].task = "crop"
       /\ (\E i \in DOMAIN fn_args' : fn_args'[i].task = "crop")
            => pc' \in {"rest", "done", "failed"}]_vars

\* C20 witness: a propagation phase with a job running and a job queued,
\* over the persisted reference table
C20_Witness ==
    /\ pc = "rest"
    /\ tile_meta = [exists |-> TRUE, rows |-> meta_df]
    /\ meta_df # <<>>
    /\ \E i, j \in DOMAIN job_state :
          /\ job_state[i] = "running"
          /\ job_state[j] = "queued"
          /\ fn_args[i].task = "crop"

\* the thresholds computed at construction for the channels of a job
ConstructionThresholds(job) ==
    {r.intensity : r \in {q \in Range(mask_proc.channel_thr_df) :
                             /\ q.dir_name = InputDir
                             /\ q.channel_idx \in Range(job.channel_ids)}}

\* C18: with the 'dataset otsu' policy every job generate_masks builds, in
\* the uniform and in the other branch, carries thresholds, and they are the
\* thresholds computed at construction for the directory and the channels
\* of the job.
C18_JobsCarryConstructionThresholds ==
    (mk_pc \in {"generated", "failed"}
        /\ mask_proc.constructed
        /\ mask_proc.mask_type = "dataset otsu") =>
        \A i \in DOMAIN mask_fn_args :
            /\ mask_fn_args[i].channel_thrs # NaN
            /\ Range(mask_fn_args[i].channel_thrs[1])
                  = ConstructionThresholds(mask_fn_args[i])

\* the (time, pos, slice) of the jobs and of the MaskRecords of the last run
JobKeys ==
    [i \in DOMAIN mask_fn_args |->
       <<mask_fn_args[i].time_idx, mask_fn_args[i].pos_idx, mask_fn_args[i].slice_idx>>]
RecordKeys ==
    [i \in DOMAIN mask_meta_csv.rows |->
       <<mask_meta_csv.rows[i].time_idx, mask_meta_csv.rows[i].pos_idx,
         mask_meta_csv.rows[i].slice_idx>>]

\* the keys at which the channel c has a frame
KeysOf(c) ==
    {<<r.time_idx, r.pos_idx, r.slice_idx>> :
        r \in {q \in Range(mask_proc.frames_meta_sub) : q.channel_idx = c}}
\* the keys at which some channel to mask has a frame, and those at which
\* every channel to mask has one
SomeChannelKeys == UNION {KeysOf(c) : c \in Range(mask_proc.channel_ids)}
EveryChannelKeys ==
    {k \in SomeChannelKeys : \A c \in Range(mask_proc.channel_ids) : k \in KeysOf(c)}

\* one job and one MaskRecord for each key of the set, none for another key
OnePerKey(keys) ==
    /\ Len(JobKeys) = Cardinality(keys)
    /\ Range(JobKeys) = keys
    /\ Len(RecordKeys) = Cardinality(keys)
    /\ Range(RecordKeys) = keys

\* C19 as stated: a finished generate_masks has submitted one job and
\* recorded one MaskRecord for each (time, pos, slice) at which a channel to
\* mask has a frame, in either branch.
C19_OneMaskPerSourceKey ==
    mk_pc = "generated" => OnePerKey(SomeChannelKeys)

\* C19 amended: a finished generate_masks has submitted one job and recorded
\* one MaskRecord for each (time, pos, slice) at which every channel to mask
\* has a frame, no key twice; in the branch that walks the IndexTree these
\* are the keys of the first channel to mask.
C19_OneMaskPerCompleteKey ==
    mk_pc = "generated" =>
        /\ OnePerKey(EveryChannelKeys)
        /\ ~mask_proc.uniform_struct
              => EveryChannelKeys = KeysOf(mask_proc.channel_ids[1])

\* a finished run over two channels in the branch that walks the IndexTree:
\* three masks, and a key of the second channel without a mask
C19_Witness ==
    /\ mk_pc = "generated"
    /\ ~mask_proc.uniform_struct
    /\ Len(mask_proc.channel_ids) = 2
    /\ Len(mask_fn_args) = 3
    /\ Len(mask_meta_csv.rows) = 3
    /\ SomeChannelKeys # EveryChannelKeys

\* the (time, pos, slice) leaves of the dict handed to tile_first_channel
Ch0Leaves ==
    UNION {UNION {UNION {{<<ch0_ids[i][1], ch0_ids[i][2][j][2][k][1],
                           ch0_ids[i][2][j][2][k][2][m]>> :
                            m \in DOMAIN ch0_ids[i][2][j][2][k][2]} :
                         k \in DOMAIN ch0_ids[i][2][j][2]} :
                  j \in DOMAIN ch0_ids[i][2]} :
           i \in DOMAIN ch0_ids}

\* C15: in tile_stack the dict handed to tile_first_channel holds, for every
\* time point of the IndexTree, exactly the entry of the reference channel at
\* that time point, the tree handed on is the IndexTree without the
\* reference channel, and every (time, pos, slice) of the reference dict has
\* a FrameRecord of the reference channel.
C15_ReferenceIdsAreOwnEntries ==
    call = "tile_stack" =>
        /\ DOMAIN ch0_ids = DOMAIN nested_id_dict
        /\ \A i \in DOMAIN ch0_ids :
              ch0_ids[i] = <<nested_id_dict[i][1],
                             SelectSeq(nested_id_dict[i][2],
                                       LAMBDA kv : kv[1] = tiled_ch_id)>>
        /\ DOMAIN remaining_ids = DOMAIN nested_id_dict
        /\ \A i \in DOMAIN remaining_ids :
              remaining_ids[i] = <<nested_id_dict[i][1],
                                   SelectSeq(nested_id_dict[i][2],
                                             LAMBDA kv : kv[1] # tiled_ch_id)>>
        /\ \A l \in Ch0Leaves :
              FrameRecord(l[1], tiled_ch_id, l[2], l[3]) \in frames_metadata

\* the table holds a TileRecord of channel c at (t, p, s)
HasTile(c, t, p, s) ==
    \E r \in Rows : /\ r.channel_idx = c
                    /\ r.time_idx = t
                    /\ r.pos_idx = p
                    /\ r.slice_idx = s

\* the window of depth d around s lies inside the slice set sl
WindowInside(sl, s, d) == \A k \in (s - d \div 2)..(s + d \div 2) : k \in sl

\* the slices of the reference channel, or of the masks, at (t, p)
RefSlices(t, p) ==
    IF call = "tile_mask_stack"
    THEN {m.slice_idx : m \in {n \in mask_dir.meta : n.time_idx = t /\ n.pos_idx = p}}
    ELSE SlicesAt(frames_metadata, t, tiled_ch_id, p)

\* C17: in the table of a finished run the reference (or mask) has
\* TileRecords only at slices whose window of the reference (or mask) depth
\* lies inside the reference's slice list, in tile_stack at all of those;
\* a remaining channel c has a TileRecord at (time, pos, slice) exactly when
\* the window of c's own depth lies inside c's slice list at (time, pos)
\* and the reference has a TileRecord at (time, pos, slice).
C17_MarginsPerChannelDepth ==
    pc = "done" =>
        \A t \in TimeIds, p \in PosIds, s \in SliceIds :
            /\ HasTile(tiled_ch_id, t, p, s)
                  => WindowInside(RefSlices(t, p), s, ch0_depth)
            /\ (call = "tile_stack"
                    /\ WindowInside(RefSlices(t, p), s, ch0_depth))
                  => HasTile(tiled_ch_id, t, p, s)
            /\ \A c \in Range(requested_ids) \ {tiled_ch_id} :
                  HasTile(c, t, p, s)
                  <=> /\ WindowInside(SlicesAt(frames_metadata, t, c, p), s,
                                      Get(channel_depth, c))
                      /\ HasTile(tiled_ch_id, t, p, s)

\* C17 witness: a finished tile_stack run with a reference of depth 1 and
\* another channel of depth 3 holding the same slices 0..2 at a position:
\* the reference has TileRecords at slices 0, 1 and 2, the other channel at
\* slice 1 only
C17_Witness ==
    /\ pc = "done"
    /\ call = "tile_stack"
    /\ ch0_depth = 1
    /\ \E t \in TimeIds, p \in PosIds, c \in Range(requested_ids) \ {tiled_ch_id} :
          /\ Get(channel_depth, c) = 3
          /\ SlicesAt(frames_metadata, t, c, p) = {0, 1, 2}
          /\ \A s \in {0, 1, 2} : HasTile(tiled_ch_id, t, p, s)
          /\ HasTile(c, t, p, 1)
          /\ ~HasTile(c, t, p, 0)
          /\ ~HasTile(c, t, p, 2)

\* C22: a tile_stack call with one requested channel ends after its
\* reference phase, and a propagation phase that has no crop job to run
\* ends, without error and with the reference table as the persisted table.
C22_EmptyPropagationCompletes ==
    [][/\ (pc = "first" /\ pc' # pc /\ call = "tile_stack"
              /\ Len(channel_ids) = 1 /\ ~raised /\ fn_args # <<>>)
            => /\ pc' = "done"
               /\ err' = ""
               /\ tile_meta' = [exists |-> TRUE, rows |-> meta_df']
       /\ (pc = "rest" /\ pc' # pc /\ fn_args = <<>>)
            => /\ pc' = "done"
               /\ err' = ""
               /\ tile_meta' = [exists |-> TRUE, rows |-> meta_df]]_vars

\* ------------------------------------- claims on later calls of the tiler
\* the table in tile_dir after the step is the reference table alone
ReferenceTablePersisted ==
    /\ tile_meta' = [exists |-> TRUE, rows |-> meta_df']
    /\ \A i \in DOMAIN meta_df' : meta_df'[i].channel_idx = tiled_ch_id'

\* C21: when the reference phase has completed the tile directory holds a
\* table; while the propagation phase runs and after it has failed the table
\* is the reference table alone; a construction after a run, on a tile
\* directory that holds a table, fails (with valid indices on the check of
\* tile_dir), dispatches nothing and leaves the table as it is.
C21_FailedRunBlocksReconstruction ==
    [][/\ (pc = "first" /\ pc' \in {"rest", "done"}) => tile_meta'.exists
       /\ pc' = "rest" => ReferenceTablePersisted
       /\ (pc \in {"first", "rest"} /\ pc' = "failed" /\ meta_df' # <<>>)
            => ReferenceTablePersisted
       /\ (pc \in {"done", "failed"} /\ call' = "" /\ tile_meta.exists)
            => /\ pc' = "failed"
               /\ err' = IF IndicesFound(frames_metadata, requested_ids')
                         THEN "TileDirExists" ELSE "IndexNotFound"
               /\ tile_meta' = tile_meta
               /\ fn_args' = <<>>]_vars

\* C21 witness: a construction with valid indices that failed on the table
\* of an earlier run, which holds the TileRecords of one channel only
\* although two channels of the dataset have frames at a key of the table
C21_Witness ==
    /\ pc = "failed"
    /\ err = "TileDirExists"
    /\ call = ""
    /\ tile_meta.exists
    /\ tile_meta # OldTable
    /\ \E r \in Rows :
          /\ \A q \in Rows : q.channel_idx = r.channel_idx
          /\ \E f \in frames_metadata :
                f.channel_idx # r.channel_idx /\ SameKey(f, r)

\* C23: no step of tile_stack or tile_mask_stack changes nested_id_dict;
\* tile_stack removes the first element of channel_ids when its reference
\* phase has completed and changes channel_ids in no other step;
\* tile_mask_stack never changes channel_ids; a second tile_stack call on an
\* object that has channels left is not stopped by the check of tile_dir and
\* tiles another reference channel than the call before.
C23_TileStackPopsChannelIds ==
    [][/\ call' # "" => /\ pc # "new" => nested_id_dict' = nested_id_dict
                        /\ channel_ids' =
                              IF /\ call = "tile_stack"
                                 /\ pc = "first"
                                 /\ pc' # pc
                                 /\ meta_df' # <<>>
                              THEN Tail(channel_ids)
                              ELSE channel_ids
       /\ (pc = "done" /\ call = "tile_stack" /\ call' = "tile_stack"
              /\ channel_ids # <<>>)
            => /\ tile_meta.exists
               /\ err' # "TileDirExists"
               /\ tiled_ch_id' = channel_ids[1]
               /\ tiled_ch_id' # tiled_ch_id]_vars

\* C23 witness: a second tile_stack call has completed on an object
\* constructed for two channels: the reference of the call is the second
\* requested channel, the IndexTree still holds both channels and
\* channel_ids is empty
C23_Witness ==
    /\ pc = "done"
    /\ call = "tile_stack"
    /\ Len(requested_ids) = 2
    /\ tiled_ch_id = requested_ids[2]
    /\ channel_ids = <<>>
    /\ ChannelsOf(nested_id_dict) = Range(requested_ids)
    /\ tile_meta.exists

\* ------------------------------------------- claims on the back-merges
IdentityKey(r) == <<r.dir_name, r.time_idx, r.channel_idx, r.slice_idx, r.pos_idx>>

\* the table after has the rows of the table before, in number, in identity
\* keys and in every column but the merged ones
KeepsRecords(before, after, merged) ==
    /\ Len(after.rows) = Len(before.rows)
    /\ {IdentityKey(after.rows[i]) : i \in DOMAIN after.rows}
          = {IdentityKey(before.rows[i]) : i \in DOMAIN before.rows}
    /\ after.cols \ merged = before.cols \ merged
    /\ \A i \in DOMAIN after.rows :
          [c \in (DOMAIN after.rows[i]) \ merged |-> after.rows[i][c]]
             = [c \in (DOMAIN before.rows[i]) \ merged |-> before.rows[i][c]]

\* C24: the merge of fg_frac in generate_masks and the merge of
\* zscore_median and zscore_iqr in compute_zscore_params keep the number of
\* rows, the set of identity keys and the values of every other column of
\* the frames table, in the table returned and in the table persisted.
C24_BackMergesKeepRecords ==
    [][/\ (mk_pc = "constructed" /\ mk_pc' = "generated")
            => /\ KeepsRecords(mask_proc.frames_metadata, input_frames_csv',
                               {"fg_frac"})
               /\ mask_proc'.frames_metadata = input_frames_csv'
       /\ (zs_calls' = zs_calls + 1 /\ zs_pc' = "returned"
              /\ normalize_im' \in {"dataset", "volume", "slice"})
            => /\ KeepsRecords(frames_meta', zscore_ret',
                               {"zscore_median", "zscore_iqr"})
               /\ frames_meta_csv' = [exists |-> TRUE, table |-> zscore_ret']]_vars

\* C24 witness: a finished mask run over a table with a stale fg_frac
\* column, in which a FrameRecord got the fg_frac of a mask and another,
\* at a key without a mask, none
C24_Witness ==
    /\ mk_pc = "generated"
    /\ Len(input_frames_csv.rows) > Len(mask_meta_csv.rows)
    /\ \E i, j \in DOMAIN input_frames_csv.rows :
          /\ run_log[Len(run_log)].before.rows[i].fg_frac = Val(StaleFg)
          /\ input_frames_csv.rows[i].fg_frac \notin {NaN, Val(StaleFg)}
          /\ input_frames_csv.rows[j].fg_frac = NaN
          /\ IdentityKey(input_frames_csv.rows[i]) # IdentityKey(input_frames_csv.rows[j])

\* --------------------------------------------- claims on MetricsEstimator
\* target and prediction differ in shape or dtype, or a supplied mask has
\* not the target's shape or is not boolean
Mismatch(a) ==
    \/ a.target.shape # a.prediction.shape
    \/ a.target.dtype # a.prediction.dtype
    \/ a.mask # NoMask /\ (a.mask.shape # a.target.shape \/ a.mask.dtype # "bool")

\* C14: an estimate call of any of the four kinds whose target, prediction
\* and mask mismatch in shape or dtype raises an assertion error, computes
\* no metrics row and leaves the four stored metrics tables as they were.
C14_MismatchRaisesBeforeMetrics ==
    [][(me_calls' = me_calls + 1 /\ Mismatch(me_args')) =>
          /\ me_pc' = "failed"
          /\ me_err' = "AssertionError"
          /\ rows_computed' = rows_computed
          /\ <<metrics_xyz, metrics_xy, metrics_xz, metrics_yz>>'
                = <<metrics_xyz, metrics_xy, metrics_xz, metrics_yz>>]_vars

\* a call with a mask of the wrong shape that failed and left the table of
\* an earlier call of the same kind in place
C14_Witness ==
    /\ me_pc = "failed"
    /\ me_err = "AssertionError"
    /\ me_args.fn = "xy"
    /\ me_args.target = me_args.prediction
    /\ me_args.mask # NoMask
    /\ me_args.mask.shape # me_args.target.shape
    /\ metrics_xy.set
    /\ metrics_xy.rows # <<>>
    /\ rows_computed > 0


====
